---- MODULE Spec2Model ----
(***************************************************************************)
(* A model of ao3.py: the HTTP transport (HTTPClient._request with its     *)
(* retry loop and header injection, login, logout), the cached slot        *)
(* properties of Work / Series / User with reload(), and the bookmark      *)
(* action of BookmarkableMixin.                                            *)
(*                                                                         *)
(* Python's None is the empty tuple <<>> and a present value x is <<x>>.   *)
(* Every await of HTTPClient._request is a sequence of steps: the caller's *)
(* code up to the await, one step per pass of the retry loop, and the      *)
(* caller's code after the await.                                          *)
(***************************************************************************)
EXTENDS Integers, Sequences, FiniteSets, TLC

VARIABLES
    state,      \* HTTPClient.state: no session, an AuthState, or the deleted slot
    session,    \* HTTPClient._session
    op,         \* the client operation in progress and its position
    req,        \* the call of HTTPClient._request in progress, or the last one
    last,       \* the outcome of the last completed client operation
    kind,       \* the class of the entity: "Work", "Series" or "User"
    element,    \* the entity's _element: the version of its backing document
    slots,      \* the entity's slots that hold cached values
    lastRead,   \* the last attribute read and what it did
    unread,     \* the properties not read since reload() last returned
    reads,      \* per property since the last reload(): provider invocations, first value returned
    bm_calls    \* the completed calls of bookmark(), in order

vars == <<state, session, op, req, last, kind, element, slots, lastRead, unread, reads, bm_calls>>

httpVars == <<state, session, op, req, last>>
entityVars == <<kind, element, slots, lastRead, unread, reads, bm_calls>>

None == <<>>
Some(x) == <<x>>

(***************************************************************************)
(* Bounds of the model.                                                    *)
(***************************************************************************)
\* largest retry-after value the site sends
MaxRetryAfter == 2
\* number of distinct documents the site serves for the entity
MaxDocs == 2
\* reads of one property between two reloads
MaxCalls == 2
\* the largest stop page given to a paged-iteration helper
MaxStop == 5
\* calls of bookmark() on the entity
MaxBookmarkCalls == 2
\* the largest min_val and max_val of a Constraint
MaxVal == 11
\* the longest list of names in a search option
MaxNames == 2
\* the tasks that call _request concurrently
MaxTasks == 2
\* the calls of HTTPClient.close()
MaxCloses == 1
\* the cached attributes of one entity that hold a value at once
MaxAttrReads == 1

(***************************************************************************)
(* HTTPClient._request: constants                                          *)
(***************************************************************************)
\* for tries in range(5)
MaxTriesMutant == 5 + 1
MaxTries == 5

\* await asyncio.sleep(5) after a connection failure
NetworkSleep == 5

\* if response.status in {500, 502, 503, 504}
RetryStatusesMutant == {404, 500, 502, 503, 504}
RetryStatuses == {500, 502, 503, 504}

\* the literals of return_type
ReturnTypes == {"text", "json", "raw", "both"}

\* 200 <= response.status < 300 or response.status == 302
IsSuccessMutant(status) == 200 <= status /\ status < 300
IsSuccess(status) == (200 <= status /\ status < 300) \/ status = 302

(***************************************************************************)
(* What the site can answer.                                               *)
(***************************************************************************)
ServerStatuses == {200, 204, 302, 403, 404, 429, 500, 503}

RetryAfterValues == {None} \cup {Some(n) : n \in 1..MaxRetryAfter}

ReasonPhrase(status) ==
    CASE status = 200 -> "OK"
      [] status = 204 -> "No Content"
      [] status = 302 -> "Found"
      [] status = 403 -> "Forbidden"
      [] status = 404 -> "Not Found"
      [] status = 429 -> "Too Many Requests"
      [] status = 500 -> "Internal Server Error"
      [] status = 502 -> "Bad Gateway"
      [] status = 503 -> "Service Unavailable"
      [] status = 504 -> "Gateway Timeout"
      [] OTHER -> ""

\* body: what the page says (a document version, a token, a bookmark id), None when irrelevant
Response(status, retry, body) ==
    [status |-> status, reason |-> ReasonPhrase(status), retry |-> retry, body |-> body]

(***************************************************************************)
(* HTTPClient.state                                                        *)
(***************************************************************************)
NoState == [tag |-> "None"]
DeletedState == [tag |-> "Deleted"]
AuthState(login_token, client_user) ==
    [tag |-> "AuthState", login_token |-> login_token, client_user |-> client_user]

(***************************************************************************)
(* Results of a call                                                       *)
(***************************************************************************)
Pending == [kind |-> "pending", exc |-> "", shape |-> "", response |-> None, text |-> ""]
Raise(exc, response, text) ==
    [kind |-> "raise", exc |-> exc, shape |-> "", response |-> response, text |-> text]

\* the if-chain on return_type of a successful response
ReturnShape(return_type) ==
    CASE return_type = "text" -> "text"
      [] return_type = "json" -> "json"
      [] return_type = "both" -> "response,text"
      [] OTHER -> "response"

Return(return_type, response) ==
    [kind |-> "return", exc |-> "", shape |-> ReturnShape(return_type),
     response |-> Some(response), text |-> ""]

\* HTTPException.__init__: status and reason of the response, and the message
HTTPException(response, message) == Raise("HTTPException", Some(response), message)

(***************************************************************************)
(* HTTPClient._request, lines 119-129: session start and header injection  *)
(***************************************************************************)
EmptyDict == [k \in {} |-> ""]

\* Python truthiness of kwargs["data"]: None and {} are false
Truthy(data) == data # None /\ DOMAIN data[1] # {}

\* the headers after lines 122-129, or the exception raised there
InjectHeaders(st, kwargs) ==
    LET headers == IF "headers" \in DOMAIN kwargs THEN kwargs.headers ELSE EmptyDict
    IN  IF st.tag = "Deleted"
        THEN [exc |-> "AttributeError", headers |-> headers]
        ELSE IF st.tag = "AuthState" /\ "authenticity_token" \notin DOMAIN headers
        THEN IF "data" \notin DOMAIN kwargs
             THEN [exc |-> "KeyError", headers |-> headers]
             ELSE IF Truthy(kwargs.data) /\ "x-csrf-token" \in DOMAIN kwargs.data[1]
             THEN [exc |-> "", headers |-> [k \in DOMAIN headers \cup {"authenticity_token"} |->
                      IF k = "authenticity_token" THEN kwargs.data[1]["x-csrf-token"] ELSE headers[k]]]
             ELSE [exc |-> "", headers |-> [k \in DOMAIN headers \cup {"authenticity_token"} |->
                      IF k = "authenticity_token" THEN st.login_token ELSE headers[k]]]
        ELSE [exc |-> "", headers |-> headers]

\* a segment of a URL path: a word, or a decimal numeral
Word(w) == [isnum |-> FALSE, w |-> w, n |-> 0]
Num(n) == [isnum |-> TRUE, w |-> "", n |-> n]

\* int(text): the number of a numeral, None for the ValueError of anything else
IntOf(part) == IF part.isnum THEN Some(part.n) ELSE None

\* Route.__init__: the verb and the path of AO3_BASE_URL + path
Route(verb, url) == [verb |-> verb, url |-> url]

\* if (not self._session) or self._session.closed
NeedsSessionMutant(s) == TRUE
NeedsSession(s) == s = "None" \/ s = "closed"

\* _start_session
StartSession(s) == IF NeedsSession(s) THEN "open" ELSE s

IdleRequest ==
    [pc |-> "idle", route |-> Route("", <<>>), return_type |-> "text", kwargs |-> EmptyDict, at |-> NoState,
     headers |-> EmptyDict, tries |-> 0, attempts |-> 0, response |-> None, sleeps |-> <<>>,
     seen |-> <<>>, result |-> Pending]

\* the call record after lines 119-134: ready for the first pass of the loop, or failed
NewRequest(st, route, return_type, kwargs) ==
    LET inj == InjectHeaders(st, kwargs)
    IN  [pc |-> IF inj.exc = "" THEN "run" ELSE "done",
         route |-> route, return_type |-> return_type, kwargs |-> kwargs, at |-> st,
         headers |-> inj.headers, tries |-> 0, attempts |-> 0, response |-> None, sleeps |-> <<>>,
         seen |-> <<>>, result |-> IF inj.exc = "" THEN Pending ELSE Raise(inj.exc, None, "")]

(***************************************************************************)
(* HTTPClient._request, lines 135-175: the retry loop                      *)
(***************************************************************************)
\* lines 171-175: what follows the loop
AfterLoop(response) ==
    IF response # None THEN Raise("HTTPException", response, "")
    ELSE Raise("RuntimeError", None, "Unreachable code in HTTP handling.")

\* delta = retry + 1
RatelimitSleepMutant(retry) == retry
RatelimitSleep(retry) == retry + 1

\* sleep_ = 1 + tries * 2
BackoffSleepMutant(tries) == 1 + tries
BackoffSleep(tries) == 1 + tries * 2

\* what one pass of the loop met: a response's status and retry-after, or a connection failure
Met(response) == [status |-> response.status, retry |-> response.retry]
MetNetworkError == [status |-> 0, retry |-> None]

\* the end of one pass that did not leave the loop: sleep, then the next pass or the code after the loop
NextPass(r, response, met, sleep_) ==
    LET t == r.tries + 1
    IN  [r EXCEPT !.tries = t, !.attempts = @ + 1, !.response = response,
                  !.sleeps = Append(@, sleep_), !.seen = Append(@, met),
                  !.pc = IF t < MaxTries THEN "run" ELSE "done",
                  !.result = IF t < MaxTries THEN Pending ELSE AfterLoop(response)]

Finished(r, response, result) ==
    [r EXCEPT !.attempts = @ + 1, !.response = response, !.seen = Append(@, Met(response[1])),
              !.pc = "done", !.result = result]

\* one pass of the loop for a response of the site
OnResponse(r, response) ==
    IF IsSuccess(response.status)
    THEN Finished(r, Some(response), Return(r.return_type, response))
    ELSE IF response.status = 429
    THEN IF response.retry = None
         THEN Finished(r, Some(response), Raise("AssertionError", Some(response), ""))
         ELSE NextPass(r, Some(response), Met(response), RatelimitSleep(response.retry[1]))
    ELSE IF response.status \in RetryStatuses
    THEN NextPass(r, Some(response), Met(response), BackoffSleep(r.tries))
    ELSE Finished(r, Some(response), HTTPException(response, "Unhandled HTTP error occured"))

\* one pass of the loop that ends in a connection failure: response keeps its value
OnNetworkError(r) == NextPass(r, r.response, MetNetworkError, NetworkSleep)

(***************************************************************************)
(* Documents                                                               *)
(***************************************************************************)
\* a parsed page: its version, the id in its bookmark-management form (or None), the id in
\* its subscription form (or None), whether it has a pseud_id input, and the content of its
\* csrf-token meta tag (or None)
Doc(ver, bookmark, sub, pseud, csrf) ==
    [ver |-> ver, bookmark |-> bookmark, sub |-> sub, pseud |-> pseud, csrf |-> csrf]

BookmarkIds == {7}
NewBookmarkIds == {8}
SiteBookmarkForms == {None} \cup {Some(b) : b \in BookmarkIds}
SiteSubForms == {None}
SiteCsrfTokens == {None, Some("C1")}

\* the pages the site may serve for an entity of class k as version ver
SiteDocs(k, ver) ==
    IF k = "User"
    THEN {Doc(ver, None, s, FALSE, c) : s \in SiteSubForms, c \in SiteCsrfTokens}
    ELSE {Doc(ver, b, s, ps, c) : b \in SiteBookmarkForms, s \in SiteSubForms, ps \in BOOLEAN,
                                  c \in SiteCsrfTokens}

\* the page of a visitor who is not logged in: no bookmark or subscription form
PlainDocs(k, ver) == {Doc(ver, None, None, k # "User", Some("C1"))}

DocVer(el) == IF el = None THEN 0 ELSE el[1].ver

(***************************************************************************)
(* Client operations                                                       *)
(***************************************************************************)
Idle == [name |-> "idle", stage |-> 0]

NoLast == [op |-> "", exc |-> "", sent |-> 0]

\* **kwargs of a call of _request: data= is passed or not, headers= defaults to {}
Kwargs(hasData, data, headers) ==
    IF hasData
    THEN [k \in {"data", "headers"} |-> IF k = "data" THEN data ELSE headers]
    ELSE [k \in {"headers"} |-> headers]

\* a call that passes params= only, as every GET helper of HTTPClient does
ParamsOnly == Kwargs(FALSE, None, EmptyDict)

Dict1(key, value) == [k \in {key} |-> value]

\* what the site answers to each operation's requests
TokenBodies == {None, Some("T1")}

\* the body of the answer to a subscription: not JSON (None), or a JSON object with or
\* without "item_id"
SubIds == {5}
SubscribeBodies == {None, Some([item_id |-> None])} \cup {Some([item_id |-> Some(i)]) : i \in SubIds}

\* the page that ends a collect request, redirects followed (allow_redirects=True): whether
\* it was reached through a redirect to AO3_AUTH_ERROR_URL, whether it has a div.notice, a
\* div.error, and a ul of collections inside the div.error
CollectPages ==
    {pg \in [via : {"", "auth_error"}, notice : BOOLEAN, error : BOOLEAN, listed : BOOLEAN] :
        pg.listed => pg.error}

\* the number of results on a page of search results
PageSizes == {0, 2, 3}

SiteResponses(o) ==
    CASE o.name = "request" ->
            {Response(429, r, None) : r \in RetryAfterValues}
                \cup {Response(s, None, None) : s \in ServerStatuses \ {429}}
      [] o.name = "login" ->
            {Response(s, None, b) : s \in {200, 302, 404}, b \in TokenBodies}
      [] o.name = "logout" ->
            {Response(s, None, None) : s \in {200, 302, 404}}
      [] o.name = "bookmark" ->
            {Response(302, None, Some(b)) : b \in NewBookmarkIds}
                \cup {Response(s, None, None) : s \in {200, 404}}
      [] o.name = "reload" ->
            {Response(200, None, Some(d)) : d \in o.pages}
                \cup {Response(404, None, None)}
      [] o.name = "give_kudos" ->
            {Response(s, None, None) : s \in {200, 404, 503}}
      [] o.name = "unsubscribe" ->
            {Response(s, None, None) : s \in {200, 404}}
      [] o.name = "subscribe" ->
            {Response(200, None, b) : b \in SubscribeBodies}
                \cup {Response(404, None, None)}
      [] o.name = "collect" ->
            {Response(200, None, Some(page)) : page \in CollectPages}
                \cup {Response(s, None, None) : s \in {204, 302, 404}}
      [] o.name = "pages" ->
            {Response(200, None, Some(n)) : n \in PageSizes}
                \cup {Response(404, None, None)}
      [] o.name \in {"search", "search_reload", "iterate"} ->
            {Response(200, None, Some(d)) : d \in o.pages}
                \cup {Response(404, None, None)}
      [] OTHER -> {}

SiteDisconnects(o) == o.name \in {"request", "login", "logout", "give_kudos"}

(***************************************************************************)
(* One pass of the retry loop of the call in progress                      *)
(***************************************************************************)
RequestResponse(response) ==
    /\ req.pc = "run"
    /\ response \in SiteResponses(op)
    /\ req' = OnResponse(req, response)
    /\ UNCHANGED <<state, session, op, last>>
    /\ UNCHANGED entityVars

RequestNetworkError ==
    /\ req.pc = "run"
    /\ SiteDisconnects(op)
    /\ req' = OnNetworkError(req)
    /\ UNCHANGED <<state, session, op, last>>
    /\ UNCHANGED entityVars

(***************************************************************************)
(* A direct call of HTTPClient._request                                    *)
(***************************************************************************)
\* the keyword arguments a caller may pass
CallerHeaders == {EmptyDict, Dict1("authenticity_token", "H1")}
CallerData == {None, Some(EmptyDict), Some(Dict1("_method", "delete")), Some(Dict1("x-csrf-token", "X1"))}
CallerKwargs ==
    {Kwargs(TRUE, d, h) : d \in CallerData, h \in CallerHeaders}
        \cup {Kwargs(FALSE, None, h) : h \in CallerHeaders}

\* a form post with the default headers
FormPost == Kwargs(TRUE, Some(Dict1("_method", "delete")), EmptyDict)

\* the calls made: every return type with a form post, every kwargs with the default return type
CallerInputs ==
    {<<rt, FormPost>> : rt \in ReturnTypes} \cup {<<"text", kw>> : kw \in CallerKwargs}

CallRequest(return_type, kwargs) ==
    /\ op = Idle
    /\ op' = [name |-> "request", stage |-> 1]
    /\ session' = StartSession(session)
    /\ req' = NewRequest(state, Route("POST", <<Word("any")>>), return_type, kwargs)
    /\ last' = NoLast
    /\ UNCHANGED state
    /\ UNCHANGED entityVars

FinishRequest ==
    /\ op.name = "request"
    /\ req.pc = "done"
    /\ op' = Idle
    /\ last' = [op |-> "request", exc |-> req.result.exc, sent |-> req.attempts]
    /\ req' = IdleRequest
    /\ UNCHANGED <<state, session>>
    /\ UNCHANGED entityVars

(***************************************************************************)
(* Client.login and HTTPClient.login                                       *)
(***************************************************************************)
\* login_token or ""
TokenOrEmpty(token) == IF token = None THEN "" ELSE token[1]

\* if username and password: ... else raise LoginFailure
\* how a call of Client.login ended: the error raised ("" for none), the requests sent,
\* whether username and password were both given, the status that answered the POST of the
\* credentials (0 when it was not sent or not answered), and HTTPClient.state before the call
LoginOutcome(exc, sent, complete, post, before) ==
    [op |-> "login", exc |-> exc, sent |-> sent, complete |-> complete, post |-> post,
     before |-> before]

LoginStart(complete) ==
    /\ op = Idle
    /\ IF complete
       THEN /\ op' = [name |-> "login", stage |-> 1, sent |-> 0, token |-> None]
            /\ session' = StartSession(session)
            /\ req' = NewRequest(state, Route("GET", <<Word("users"), Word("login")>>), "text", ParamsOnly)
            /\ last' = NoLast
       ELSE /\ last' = LoginOutcome("LoginFailure", 0, FALSE, 0, state)
            /\ UNCHANGED <<op, session, req>>
    /\ UNCHANGED state
    /\ UNCHANGED entityVars

\* the code of HTTPClient.login and Client.login after each await
LoginContinue ==
    /\ op.name = "login"
    /\ req.pc = "done"
    /\ LET sent == op.sent + req.attempts
           body == req.result.response[1].body
           post == IF op.stage = 2 /\ req.result.response # None
                   THEN req.result.response[1].status ELSE 0
       IN  IF req.result.kind = "raise"
           THEN /\ op' = Idle
                /\ last' = LoginOutcome(req.result.exc, sent, TRUE, post, state)
                /\ req' = IdleRequest
                /\ UNCHANGED <<state, session>>
           ELSE IF op.stage = 1
           THEN /\ op' = [op EXCEPT !.stage = 2, !.sent = sent]
                /\ session' = StartSession(session)
                /\ req' = NewRequest(state, Route("POST", <<Word("users"), Word("login")>>), "both", ParamsOnly)
                /\ UNCHANGED <<state, last>>
           ELSE IF op.stage = 2
           THEN IF req.result.response[1].status # 302
                THEN /\ op' = Idle
                     /\ last' = LoginOutcome("LoginFailure", sent, TRUE, post, state)
                     /\ req' = IdleRequest
                     /\ UNCHANGED <<state, session>>
                ELSE /\ op' = [op EXCEPT !.stage = 3, !.sent = sent, !.token = body]
                     /\ session' = StartSession(session)
                     /\ req' = NewRequest(state, Route("GET", <<Word("users"), Word("username"), Word("profile")>>), "text", ParamsOnly)
                     /\ UNCHANGED <<state, last>>
           ELSE /\ state' = AuthState(TokenOrEmpty(op.token), "client_user")
                /\ op' = Idle
                /\ last' = LoginOutcome("", sent, TRUE, 302, state)
                /\ req' = IdleRequest
                /\ UNCHANGED session
    /\ UNCHANGED entityVars

(***************************************************************************)
(* HTTPClient.logout                                                       *)
(***************************************************************************)
LogoutStart ==
    /\ op = Idle
    /\ op' = [name |-> "logout", stage |-> 1]
    /\ session' = StartSession(session)
    /\ req' = NewRequest(state, Route("POST", <<Word("users"), Word("logout")>>), "text",
                         Kwargs(TRUE, Some(Dict1("_method", "delete")), EmptyDict))
    /\ last' = NoLast
    /\ UNCHANGED state
    /\ UNCHANGED entityVars

\* if self.state: del self.state
LogoutContinue ==
    /\ op.name = "logout"
    /\ req.pc = "done"
    /\ op' = Idle
    /\ last' = [op |-> "logout", exc |-> req.result.exc, sent |-> req.attempts]
    /\ state' = IF req.result.kind = "return" /\ state.tag = "AuthState" THEN DeletedState ELSE state
    /\ req' = IdleRequest
    /\ UNCHANGED session
    /\ UNCHANGED entityVars

(***************************************************************************)
(* Cached slot properties                                                  *)
(***************************************************************************)
\* the cached slot properties of each class that the model follows
Properties(k) ==
    CASE k = "Work" -> {"authenticity_token", "bookmark_id", "sub_id", "title", "is_restricted"}
      [] k = "Series" -> {"authenticity_token", "bookmark_id", "sub_id", "name", "nworks", "is_complete"}
      [] k = "User" -> {"id", "authenticity_token", "sub_id", "nworks", "bio"}

\* the name given to cached_slot_property for each property
SlotOf(k, p) ==
    CASE p = "authenticity_token" -> "_authenticity_token"
      [] p = "bookmark_id" -> "_cs_bookmark_id"
      [] p = "sub_id" -> "_cs_sub_id"
      [] p = "title" -> "_cs_title"
      [] p = "is_restricted" -> "_cs_restricted"
      [] p = "name" -> "_cs_name"
      [] p = "nworks" -> "_cs_nworks"
      [] p = "is_complete" -> "_cs_nworks"
      [] p = "id" -> "_id"
      [] p = "bio" -> "_cs_bio"

\* __slots__ of each class, without _id of Work and Series, username, _http and _element
Slots(k) ==
    CASE k = "Work" -> {"_authenticity_token", "_cs_bookmark_id", "_cs_sub_id", "_cs_title", "_cs_restricted"}
      [] k = "Series" -> {"_authenticity_token", "_cs_bookmark_id", "_cs_sub_id", "_cs_name", "_cs_nworks",
                          "_cs_is_complete"}
      [] k = "User" -> {"_id", "_authenticity_token", "_cs_sub_id", "_cs_nworks"}

\* reload(): set(self.__slots__).difference((..., "_id", "_http", "_element"))
ResetSlots(k) == Slots(k) \ {"_id"}

\* a cached value: the property that computed it, the document it was computed from, and
\* for the id-valued properties the id (or None)
Value(by, doc, val) == [by |-> by, doc |-> doc, val |-> val]
NoValue == Value("", 0, None)

\* the provider function of property p: the value, or the exception it raises
Provider(k, p, el, st) ==
    IF p \in {"bookmark_id", "sub_id"}
    THEN IF el = None THEN [exc |-> "", value |-> Value(p, 0, None)]
         ELSE IF st.tag = "Deleted" THEN [exc |-> "AttributeError", value |-> NoValue]
         ELSE IF st.tag = "None" THEN [exc |-> "", value |-> Value(p, el[1].ver, None)]
         ELSE [exc |-> "", value |-> Value(p, el[1].ver,
                                           IF p = "bookmark_id" THEN el[1].bookmark ELSE el[1].sub)]
    ELSE IF el = None
    THEN IF p \in {"authenticity_token", "is_restricted"}
         THEN [exc |-> "", value |-> Value(p, 0, None)]
         ELSE [exc |-> "UnloadedError", value |-> NoValue]
    ELSE IF p = "authenticity_token"
    THEN [exc |-> "", value |-> Value(p, el[1].ver, el[1].csrf)]
    ELSE [exc |-> "", value |-> Value(p, el[1].ver, None)]

\* what a read did: the property read, whether its provider ran, "value" or the exception
\* raised, whether the value returned was computed from the document current at the read,
\* whether it was the first read of the property after a reload() that returned, and whether
\* the value equals the one returned by the earlier reads since the last reload(); for the
\* id-valued properties also the id returned and HTTPClient.state as it was at the read
NoRead ==
    [prop |-> "", invoked |-> FALSE, outcome |-> "", fresh |-> TRUE, first |-> FALSE, same |-> TRUE,
     val |-> None, session |-> ""]

NoReads(k) == [p \in Properties(k) |-> [n |-> 0, value |-> None]]

\* CachedSlotProperty.__get__: the slot's value if it is set, else the provider's value,
\* stored in the slot; the record says what the read did and what the slots are afterwards
\* r is what the provider does when it is called, declared whether __slots__ has the name
CachedGet(slot, r, declared, sl) ==
    IF slot \in DOMAIN sl
    THEN [invoked |-> FALSE, outcome |-> "value", value |-> sl[slot], slots |-> sl]
    ELSE IF r.exc # ""
    THEN [invoked |-> TRUE, outcome |-> r.exc, value |-> NoValue, slots |-> sl]
    ELSE IF ~declared
    THEN [invoked |-> TRUE, outcome |-> "AttributeError", value |-> NoValue, slots |-> sl]
    ELSE [invoked |-> TRUE, outcome |-> "value", value |-> r.value,
          slots |-> [s \in DOMAIN sl \cup {slot} |-> IF s = slot THEN r.value ELSE sl[s]]]

\* a read of property p of an entity of kind k
Get(k, p, el, st, sl) ==
    CachedGet(SlotOf(k, p), Provider(k, p, el, st), SlotOf(k, p) \in Slots(k), sl)

\* the record of reads after a read of p
Noted(rd, p, g) ==
    [rd EXCEPT ![p] = [n |-> IF g.invoked THEN @.n + 1 ELSE @.n,
                       value |-> IF @.value = None /\ g.outcome = "value" THEN Some(g.value) ELSE @.value]]

\* a read of the attribute p of the entity
ReadProperty(p) ==
    /\ op = Idle
    /\ p \in Properties(kind)
    /\ LET g == Get(kind, p, element, state, slots)
       IN  /\ g.invoked => reads[p].n < MaxCalls
           /\ slots' = g.slots
           /\ lastRead' = [prop |-> p, invoked |-> g.invoked, outcome |-> g.outcome,
                           fresh |-> g.outcome = "value" => g.value.doc = DocVer(element),
                           first |-> p \in unread,
                           same |-> (g.outcome = "value" /\ reads[p].value # None)
                                        => reads[p].value[1] = g.value,
                           val |-> g.value.val, session |-> state.tag]
           /\ reads' = Noted(reads, p, g)
           /\ unread' = unread \ {p}
    /\ UNCHANGED <<kind, element, bm_calls>>
    /\ UNCHANGED httpVars

(***************************************************************************)
(* Work.reload, Series.reload, User.reload                                 *)
(***************************************************************************)
ReloadStart(pages) ==
    /\ op = Idle
    /\ DocVer(element) < MaxDocs
    /\ op' = [name |-> "reload", stage |-> 1, pages |-> pages]
    /\ session' = StartSession(session)
    /\ req' = NewRequest(state, Route("GET", <<Word(kind), Num(1)>>), "text", ParamsOnly)
    /\ last' = NoLast
    /\ UNCHANGED state
    /\ UNCHANGED entityVars

\* the slots after the loop of delattr, for each order the set of names may be walked in:
\* the loop stops with AttributeError at the first name whose slot is not set
AfterDelattr(k, sl) ==
    LET reset == ResetSlots(k)
        set == DOMAIN sl \cap reset
    IN  IF reset \subseteq DOMAIN sl
        THEN {[exc |-> "", slots |-> [s \in DOMAIN sl \ reset |-> sl[s]]]}
        ELSE {[exc |-> "AttributeError", slots |-> [s \in DOMAIN sl \ D |-> sl[s]]] : D \in SUBSET set}

\* how a reload ended: the exception, the requests sent, and whether the fetch returned
\* the page, so that self._element was replaced
ReloadOutcome(exc, sent, fetched) == [op |-> "reload", exc |-> exc, sent |-> sent, fetched |-> fetched]

\* what reload() does to the entity once the fetch is over: an exception of the fetch
\* leaves "text = await ..." before self._element is assigned; otherwise the document is
\* replaced and the loop of delattr runs
ReloadEffectMutant(k, el, sl, result) ==
    IF result.kind = "raise"
    THEN {[element |-> el, slots |-> EmptyDict, exc |-> result.exc, fetched |-> FALSE]}
    ELSE {[element |-> result.response[1].body, slots |-> a.slots, exc |-> a.exc,
           fetched |-> TRUE] : a \in AfterDelattr(k, sl)}
ReloadEffect(k, el, sl, result) ==
    IF result.kind = "raise"
    THEN {[element |-> el, slots |-> sl, exc |-> result.exc, fetched |-> FALSE]}
    ELSE {[element |-> result.response[1].body, slots |-> a.slots, exc |-> a.exc,
           fetched |-> TRUE] : a \in AfterDelattr(k, sl)}

\* self._element = html.fromstring(text), then the loop of delattr
ReloadContinue ==
    /\ op.name = "reload"
    /\ req.pc = "done"
    /\ op' = Idle
    /\ req' = IdleRequest
    /\ \E e \in ReloadEffect(kind, element, slots, req.result) :
         /\ element' = e.element
         /\ slots' = e.slots
         /\ last' = ReloadOutcome(e.exc, req.attempts, e.fetched)
         /\ unread' = IF ~e.fetched THEN unread
                      ELSE IF e.exc = "" THEN Properties(kind) \ {"id"} ELSE {}
         /\ reads' = IF e.fetched THEN NoReads(kind) ELSE reads
    /\ lastRead' = NoRead
    /\ UNCHANGED <<state, session, kind, bm_calls>>

(***************************************************************************)
(* BookmarkableMixin.bookmark                                              *)
(***************************************************************************)
\* self.url.partition(".org")[-1] for a Work or a Series with id 1
EntityPath(k) == <<Word(IF k = "Work" THEN "works" ELSE "series"), Num(1)>>

\* HTTPClient.bookmark: POST {bookmarkable_path}/bookmarks with the form, allow_redirects=False
BookmarkRequest(st, k, auth_token) ==
    NewRequest(st, Route("POST", Append(EntityPath(k), Word("bookmarks"))), "raw",
               [key \in {"data", "headers", "allow_redirects"} |->
                   CASE key = "data" -> Some(Dict1("authenticity_token", auth_token))
                     [] key = "headers" -> EmptyDict
                     [] key = "allow_redirects" -> FALSE])

\* resp.url: the URL that was requested, as _request was told to follow no redirect
ResponseURL(r) == r.route.url

\* the value of _cs_bookmark_id as a read would return it, if the slot is set
SlotVal(sl, slot) == IF slot \in DOMAIN sl THEN [set |-> TRUE, val |-> sl[slot].val]
                     ELSE [set |-> FALSE, val |-> None]

BmCall(exc, sent, ready, accepted, prior, sl) ==
    [exc |-> exc, sent |-> sent, ready |-> ready, accepted |-> accepted, prior |-> prior,
     after |-> SlotVal(sl, "_cs_bookmark_id")]

\* what a read of the property p would return in this state: the id (or None), or ok = FALSE
\* when the read raises
Reading(k, p, el, st, sl) ==
    LET g == Get(k, p, el, st, sl)
    IN  [ok |-> g.outcome = "value", val |-> g.value.val]

\* what holds when a write action is called: HTTPClient.state and its login token, the
\* entity's own authenticity token, its document, what bookmark_id and sub_id read, and the
\* operation completed just before with its error
Pre(k, el, st, sl, lst) ==
    [session |-> st.tag,
     login_token |-> IF st.tag = "AuthState" THEN Some(st.login_token) ELSE None,
     own |-> Reading(k, "authenticity_token", el, st, sl).val,
     loaded |-> el # None,
     pseud |-> el # None /\ el[1].pseud,
     bookmark_id |-> Reading(k, "bookmark_id", el, st, sl),
     sub_id |-> Reading(k, "sub_id", el, st, sl),
     prior |-> lst.op, prior_exc |-> lst.exc]

\* the outcome of a write action: the error raised ("" for a normal return), the requests
\* sent, what held at the call, the authenticity_token of the form sent, the error that
\* _request raised, the response it returned, and what bookmark_id and sub_id read afterwards
Outcome(name, exc, sent, pre, token, transport, reply, k, el, st, sl) ==
    [op |-> name, exc |-> exc, sent |-> sent, pre |-> pre, token |-> token,
     transport |-> transport, reply |-> reply,
     bookmark_id |-> Reading(k, "bookmark_id", el, st, sl),
     sub_id |-> Reading(k, "sub_id", el, st, sl)]

\* bookmark() up to the await of HTTPClient.bookmark
BookmarkStart ==
    /\ op = Idle
    /\ kind \in {"Work", "Series"}
    /\ Len(bm_calls) < MaxBookmarkCalls
    /\ lastRead' = NoRead
    /\ IF state.tag = "Deleted"
       THEN /\ last' = Outcome("bookmark", "AttributeError", 0, Pre(kind, element, state, slots, last),
                               None, "", None, kind, element, state, slots)
            /\ bm_calls' = Append(bm_calls, BmCall("AttributeError", 0, FALSE, None, last.op, slots))
            /\ UNCHANGED <<op, req, session, slots, reads, unread>>
       ELSE LET g1 == Get(kind, "authenticity_token", element, state, slots)
                auth_token == IF state.tag = "AuthState" THEN Some(state.login_token) ELSE g1.value.val
                g2 == Get(kind, "bookmark_id", element, state, g1.slots)
                noted1 == Noted(reads, "authenticity_token", g1)
                noted2 == Noted(noted1, "bookmark_id", g2)
                exc == IF auth_token = None THEN "AuthError"
                       ELSE IF element = None THEN "UnloadedError"
                       ELSE IF g2.value.val # None THEN "BookmarkError"
                       ELSE IF ~element[1].pseud THEN "PseudError"
                       ELSE ""
                read2 == auth_token # None /\ element # None
                sl == IF read2 THEN g2.slots ELSE g1.slots
            IN  /\ slots' = sl
                /\ reads' = IF read2 THEN noted2 ELSE noted1
                /\ unread' = unread \ (IF read2 THEN {"authenticity_token", "bookmark_id"}
                                       ELSE {"authenticity_token"})
                /\ IF exc # ""
                   THEN /\ last' = Outcome("bookmark", exc, 0, Pre(kind, element, state, slots, last),
                                           None, "", None, kind, element, state, sl)
                        /\ bm_calls' = Append(bm_calls, BmCall(exc, 0, FALSE, None, last.op, sl))
                        /\ UNCHANGED <<op, req, session>>
                   ELSE /\ op' = [name |-> "bookmark", stage |-> 1, prior |-> last.op,
                                  ready |-> state.tag = "AuthState",
                                  pre |-> Pre(kind, element, state, slots, last), token |-> auth_token]
                        /\ session' = StartSession(session)
                        /\ req' = BookmarkRequest(state, kind, auth_token[1])
                        /\ last' = NoLast
                        /\ UNCHANGED bm_calls
    /\ UNCHANGED <<state, kind, element>>

\* bookmark() after the await: except HTTPException -> BookmarkError, else
\* self._cs_bookmark_id = int(resp.url.parts[-1])
BookmarkContinue ==
    /\ op.name = "bookmark"
    /\ req.pc = "done"
    /\ op' = Idle
    /\ req' = IdleRequest
    /\ LET url == ResponseURL(req)
           id == IntOf(url[Len(url)])
           accepted == IF req.result.kind = "return" /\ req.result.response[1].status = 302
                       THEN req.result.response[1].body ELSE None
           exc == IF req.result.kind = "raise"
                  THEN IF req.result.exc = "HTTPException" THEN "BookmarkError" ELSE req.result.exc
                  ELSE IF id = None THEN "ValueError" ELSE ""
           sl == IF exc = ""
                 THEN [s \in DOMAIN slots \cup {"_cs_bookmark_id"} |->
                          IF s = "_cs_bookmark_id" THEN Value("bookmark", DocVer(element), id) ELSE slots[s]]
                 ELSE slots
       IN  /\ slots' = sl
           /\ last' = Outcome("bookmark", exc, req.attempts, op.pre, op.token,
                              IF req.result.kind = "raise" THEN req.result.exc ELSE "",
                              req.result.response, kind, element, state, sl)
           /\ bm_calls' = Append(bm_calls, BmCall(exc, req.attempts, op.ready, accepted, op.prior, sl))
    /\ UNCHANGED <<state, session, kind, element, lastRead, unread, reads>>

(***************************************************************************)
(* give_kudos, delete_bookmark, subscribe, unsubscribe, collect            *)
(***************************************************************************)
WriteActions == {"give_kudos", "delete_bookmark", "subscribe", "unsubscribe", "collect"}

\* the classes that inherit the mixin of each action
HasAction(k, name) ==
    CASE name \in {"give_kudos", "collect"} -> k = "Work"
      [] name \in {"bookmark", "delete_bookmark"} -> k \in {"Work", "Series"}
      [] OTHER -> TRUE

\* except HTTPException as err: raise <the error of the action> from err
ActionError(name) ==
    CASE name = "give_kudos" -> "KudoError"
      [] name \in {"bookmark", "delete_bookmark"} -> "BookmarkError"
      [] name \in {"subscribe", "unsubscribe"} -> "SubscribeError"
      [] name = "collect" -> "CollectError"

\* the lines of a write action before its await: the token, AuthError, and for
\* delete_bookmark, subscribe and unsubscribe the check of the cached id and the assert on
\* self._http.state; the record holds the error raised, the token, the id read, the slots
\* and the record of reads afterwards, and the properties read
WriteChecks(name, k, el, st, sl, rd) ==
    IF st.tag = "Deleted"
    THEN [exc |-> "AttributeError", token |-> None, id |-> None, slots |-> sl, reads |-> rd, read |-> {}]
    ELSE LET g1 == Get(k, "authenticity_token", el, st, sl)
             token == IF st.tag = "AuthState" THEN Some(st.login_token) ELSE g1.value.val
             r1 == Noted(rd, "authenticity_token", g1)
             p == IF name = "delete_bookmark" THEN "bookmark_id" ELSE "sub_id"
             g2 == Get(k, p, el, st, g1.slots)
             id == g2.value.val
             r2 == Noted(r1, p, g2)
             exc == IF name = "delete_bookmark"
                    THEN IF id = None THEN "BookmarkError" ELSE ""
                    ELSE IF (name = "subscribe") = (id # None) THEN "SubscribeError"
                    ELSE IF st.tag # "AuthState" THEN "AssertionError"
                    ELSE ""
         IN  IF token = None
             THEN [exc |-> "AuthError", token |-> None, id |-> None, slots |-> g1.slots, reads |-> r1,
                   read |-> {"authenticity_token"}]
             ELSE IF name \in {"give_kudos", "collect"}
             THEN [exc |-> "", token |-> token, id |-> None, slots |-> g1.slots, reads |-> r1,
                   read |-> {"authenticity_token"}]
             ELSE [exc |-> exc, token |-> token, id |-> id, slots |-> g2.slots, reads |-> r2,
                   read |-> {"authenticity_token", p}]

\* Route.__init__ for a path that does not begin with "/": AO3_BASE_URL + path runs the
\* first segment of the path into the host name of the URL
GluedRoute(verb, url) == [verb |-> verb, url |-> Tail(url), host |-> url[1]]

\* whether the URL of the route still names the site
ReachesSite(route) == "host" \notin DOMAIN route

\* the methods of HTTPClient that the write actions await
WriteRequest(name, st, k, token, id) ==
    LET data == Some(Dict1("authenticity_token", token))
        form == Kwargs(TRUE, data, EmptyDict)
        client_username == Word("username")
    IN  CASE name = "give_kudos" ->
                NewRequest(st, Route("POST", <<Word("kudos.js")>>), "raw",
                           Kwargs(TRUE, data, Dict1("X-CSRF-Token", token)))
          [] name = "delete_bookmark" ->
                NewRequest(st, GluedRoute("POST", <<Word("bookmarks"), Num(id[1])>>), "raw", form)
          [] name = "subscribe" ->
                NewRequest(st, Route("POST", <<Word("users"), client_username, Word("subscriptions")>>),
                           "json", form)
          [] name = "unsubscribe" ->
                NewRequest(st, Route("POST", <<Word("users"), client_username, Word("subscriptions"),
                                               Num(id[1])>>), "raw", form)
          [] name = "collect" ->
                NewRequest(st, Route("POST", <<Word("")>> \o EntityPath(k) \o <<Word("collection_items")>>),
                           "both",
                           [key \in {"data", "headers", "allow_redirects"} |->
                               CASE key = "data" -> data
                                 [] key = "headers" -> EmptyDict
                                 [] key = "allow_redirects" -> TRUE])

\* a write action up to its await
WriteStart(name) ==
    /\ op = Idle
    /\ name \in WriteActions
    /\ HasAction(kind, name)
    /\ LET c == WriteChecks(name, kind, element, state, slots, reads)
           pre == Pre(kind, element, state, slots, last)
       IN  /\ slots' = c.slots
           /\ reads' = c.reads
           /\ unread' = unread \ c.read
           /\ IF c.exc # ""
              THEN /\ last' = Outcome(name, c.exc, 0, pre, None, "", None, kind, element, state, c.slots)
                   /\ UNCHANGED <<op, req, session>>
              ELSE /\ op' = [name |-> name, stage |-> 1, pre |-> pre, token |-> c.token]
                   /\ session' = StartSession(session)
                   /\ req' = WriteRequest(name, state, kind, c.token[1], c.id)
                   /\ last' = NoLast
    /\ lastRead' = NoRead
    /\ UNCHANGED <<state, kind, element, bm_calls>>

\* one pass of the loop for a URL whose host is not the site's: session.request raises
\* aiohttp.ClientConnectorError, which _request does not catch
RequestUnreachable ==
    /\ req.pc = "run"
    /\ ~ReachesSite(req.route)
    /\ req' = [req EXCEPT !.attempts = @ + 1, !.pc = "done",
                          !.result = Raise("ClientConnectorError", None, "")]
    /\ UNCHANGED <<state, session, op, last>>
    /\ UNCHANGED entityVars

\* "from lxml import html" of abc.py stands under "if TYPE_CHECKING:", so the name html is
\* not bound when collect() runs
HtmlBound == FALSE

\* collect() after its await returned: the else branch of the try
CollectAfter(response) ==
    IF response.status = 302
    THEN IF response.body = None THEN "KeyError"
         ELSE IF response.body[1].location = "auth_error" THEN "AuthError"
         ELSE ""
    ELSE IF response.status = 200
    THEN IF ~HtmlBound THEN "NameError"
         ELSE IF ~response.body[1].notice /\ ~response.body[1].error THEN "CollectError"
         ELSE IF response.body[1].error THEN "CollectError"
         ELSE ""
    ELSE ""

\* a write action after its await returned: the error raised, "" for none
AfterReturn(name, response) ==
    CASE name = "collect" -> CollectAfter(response)
      [] name = "subscribe" -> IF response.body = None THEN "ContentTypeError" ELSE ""
      [] OTHER -> ""

\* the value the action stores in its slot when it ends normally
Stored(name, response, ver) ==
    IF name = "subscribe" THEN Value(name, ver, response.body[1].item_id)
    ELSE Value(name, ver, None)

\* a write action after its await
WriteContinue ==
    /\ op.name \in WriteActions
    /\ req.pc = "done"
    /\ op' = Idle
    /\ req' = IdleRequest
    /\ LET r == req.result
           exc == IF r.kind = "raise"
                  THEN IF r.exc = "HTTPException" THEN ActionError(op.name) ELSE r.exc
                  ELSE AfterReturn(op.name, r.response[1])
           slot == IF op.name = "delete_bookmark" THEN "_cs_bookmark_id" ELSE "_cs_sub_id"
           sl == IF exc = "" /\ op.name \in {"delete_bookmark", "subscribe", "unsubscribe"}
                 THEN [s \in DOMAIN slots \cup {slot} |->
                          IF s = slot THEN Stored(op.name, r.response[1], DocVer(element)) ELSE slots[s]]
                 ELSE slots
       IN  /\ slots' = sl
           /\ last' = Outcome(op.name, exc, req.attempts, op.pre, op.token,
                              IF r.kind = "raise" THEN r.exc ELSE "", r.response,
                              kind, element, state, sl)
    /\ UNCHANGED <<state, session, kind, element, lastRead, unread, reads, bm_calls>>

(***************************************************************************)
(* work_search_pages, people_search_pages, bookmark_search_pages,          *)
(* tag_search_pages: the loop they share, driven by "async for" to its end *)
(***************************************************************************)
\* range(start, stop, step) for a positive step: whether page_num is in it
InRange(page_num, stop) == page_num < stop

\* search_works: the request for one page of results
PageRequest(st, page_num) ==
    NewRequest(st, Route("GET", <<Word("works"), Word("search")>>), "text",
               [k \in {"params"} |-> Some(Dict1("page", page_num))])

\* "raise StopAsyncIteration" in the body of an async generator: PEP 479/525 turn it into
\* RuntimeError("async generator raised StopAsyncIteration") at the caller's __anext__()
RaisedInGenerator(exc) == IF exc = "StopAsyncIteration" THEN "RuntimeError" ELSE exc

PagesOutcome(exc, start, stop, step, sizes, yielded) ==
    [op |-> "pages", exc |-> exc, sent |-> Len(sizes), start |-> start, stop |-> stop,
     step |-> step, sizes |-> sizes, yielded |-> yielded]

\* the first __anext__(): the for statement takes its first page number, or ends
PagesStart(start, stop, step) ==
    /\ op = Idle
    /\ IF InRange(start, stop)
       THEN /\ op' = [name |-> "pages", stage |-> 1, start |-> start, stop |-> stop, step |-> step,
                      page_num |-> start, sizes |-> <<>>, yielded |-> <<>>]
            /\ session' = StartSession(session)
            /\ req' = PageRequest(state, start)
            /\ last' = NoLast
       ELSE /\ last' = PagesOutcome("", start, stop, step, <<>>, <<>>)
            /\ UNCHANGED <<op, session, req>>
    /\ UNCHANGED state
    /\ UNCHANGED entityVars

\* the rest of one pass of the for statement once the page request is over, and the next
\* __anext__() of the caller when the page was yielded
PagesContinue ==
    /\ op.name = "pages"
    /\ req.pc = "done"
    /\ LET r == req.result
           n == r.response[1].body[1]
           sizes == IF r.kind = "raise" THEN Append(op.sizes, -1) ELSE Append(op.sizes, n)
           yielded == Append(op.yielded, op.page_num)
           next == op.page_num + op.step
       IN  IF r.kind = "raise"
           THEN /\ last' = PagesOutcome(r.exc, op.start, op.stop, op.step, sizes, op.yielded)
                /\ op' = Idle
                /\ req' = IdleRequest
           ELSE IF n = 0
           THEN /\ last' = PagesOutcome(RaisedInGenerator("StopAsyncIteration"), op.start, op.stop,
                                        op.step, sizes, op.yielded)
                /\ op' = Idle
                /\ req' = IdleRequest
           ELSE IF InRange(next, op.stop)
           THEN /\ op' = [op EXCEPT !.page_num = next, !.sizes = sizes, !.yielded = yielded]
                /\ req' = PageRequest(state, next)
                /\ last' = NoLast
           ELSE /\ last' = PagesOutcome("", op.start, op.stop, op.step, sizes, yielded)
                /\ op' = Idle
                /\ req' = IdleRequest
    /\ UNCHANGED <<state, session>>
    /\ UNCHANGED entityVars

(***************************************************************************)
(* Constraint.string, WorkSearchOptions.to_dict, Object.__eq__ and         *)
(* Object.__hash__.  A str is the sequence of its characters.              *)
(***************************************************************************)
\* str(n) for n >= 0
DigitChars == <<"0", "1", "2", "3", "4", "5", "6", "7", "8", "9">>
RECURSIVE Str(_)
Str(n) == IF n < 10 THEN <<DigitChars[n + 1]>> ELSE Str(n \div 10) \o <<DigitChars[(n % 10) + 1]>>

Constraint(min_val, max_val) == [min_val |-> min_val, max_val |-> max_val]

\* Constraint.string
ConstraintString(c) ==
    IF c.min_val = 0 /\ c.max_val = None THEN <<>>
    ELSE IF c.min_val = 0 THEN <<"<">> \o Str(c.max_val[1])
    ELSE IF c.max_val = None THEN <<">">> \o Str(c.min_val)
    ELSE IF c.min_val = c.max_val[1] THEN Str(c.min_val)
    ELSE Str(c.min_val) \o <<"-">> \o Str(c.max_val[1])

Constraints == {Constraint(a, b) : a \in 0 .. MaxVal, b \in {None} \cup {Some(n) : n \in 0 .. MaxVal}}

\* a read of the string property of a Constraint
ReadConstraintString(c) ==
    /\ op = Idle
    /\ last' = [op |-> "string", exc |-> "", sent |-> 0, constraint |-> c, out |-> ConstraintString(c)]
    /\ UNCHANGED <<state, session, op, req>>
    /\ UNCHANGED entityVars

\* ",".join(names)
RECURSIVE Join(_)
Join(names) ==
    IF names = <<>> THEN <<>>
    ELSE IF Len(names) = 1 THEN names[1]
    ELSE names[1] \o <<",">> \o Join(Tail(names))

\* the values of the mapping that to_dict returns: a str or a list of str
StrVal(text) == [type |-> "str", text |-> text, items |-> <<>>]
ListVal(items) == [type |-> "list", text |-> <<>>, items |-> items]

\* the fields of WorkSearchOptions that hold a list of names, and those that hold a
\* Constraint or None
NameListFields == {"fandom_names", "character_names", "relationship_names", "freeform_names",
                   "excluded_tag_names"}
ConstraintFields == {"word_count", "hits", "kudos_count", "comments_count", "bookmarks_count"}

\* the fields that result.update(...) of WorkSearchOptions.to_dict replaces by ",".join(...)
JoinedFields == {"fandom_names", "character_names", "relationship_names", "freeform_names"}

\* WorkSearchOptions() with its defaults: empty lists and None
DefaultOptions == [f \in NameListFields \cup ConstraintFields |-> <<>>]

\* WorkSearchOptions.to_dict for the fields above: attrs.asdict(self), then update
ToDict(options) ==
    [f \in DOMAIN options |->
        IF f \in JoinedFields THEN StrVal(Join(options[f]))
        ELSE IF f \in ConstraintFields
        THEN StrVal(IF options[f] # None THEN ConstraintString(options[f][1]) ELSE <<>>)
        ELSE ListVal(options[f])]

Names == {<<"a">>, <<"b", "c">>}
NameLists == UNION {[1 .. n -> Names] : n \in 0 .. MaxNames}

\* the Constraint fields given to to_dict: unset, or a Constraint with its ends from 0, the
\* largest value and None
OptionConstraints ==
    {None} \cup {Some(Constraint(a, b)) : a \in {0, MaxVal}, b \in {None, Some(0), Some(MaxVal)}}

\* a call of to_dict on options whose list fields hold names and whose Constraint fields hold c
CallToDict(names, c) ==
    /\ op = Idle
    /\ LET options == [f \in DOMAIN DefaultOptions |-> IF f \in NameListFields THEN names ELSE c]
       IN  last' = [op |-> "to_dict", exc |-> "", sent |-> 0, options |-> options, out |-> ToDict(options)]
    /\ UNCHANGED <<state, session, op, req>>
    /\ UNCHANGED entityVars

\* Object(id=..., name=..., type=...): the arguments, each None or a value
ObjectTypes == {"User", "Work"}
ObjectArgs ==
    [id : {None, Some(1), Some(2)}, name : {None, Some("n1"), Some("n2")},
     type : {None} \cup {Some(t) : t \in ObjectTypes}]

\* Object.__init__: ValueError without id and name; self.type = type or self.__class__
NewObject(args) ==
    IF args.id = None /\ args.name = None
    THEN [exc |-> "ValueError", id |-> None, name |-> None, type |-> "Object"]
    ELSE [exc |-> "", id |-> args.id, name |-> args.name,
          type |-> IF args.type = None THEN "Object" ELSE args.type[1]]

\* isinstance(value, cls) for an Object value: Object is no subclass of Work, Series or User
IsInstance(value, cls) == cls = "Object"

\* Object.__eq__(self, value): "True", "False" or "NotImplemented"
ObjectEq(self, value) ==
    IF IsInstance(value, self.type)
    THEN IF self.id = value.id THEN "True" ELSE "False"
    ELSE "NotImplemented"

\* a == b: a.__eq__(b), then the reflected b.__eq__(a), then identity
Equals(a, b, same) ==
    IF ObjectEq(a, b) # "NotImplemented" THEN ObjectEq(a, b) = "True"
    ELSE IF ObjectEq(b, a) # "NotImplemented" THEN ObjectEq(b, a) = "True"
    ELSE same

\* the tuple that Object.__hash__ hashes: the attributes that are not None
HashKey(o) ==
    (IF o.id # None THEN <<[attr |-> "int", n |-> o.id[1], s |-> ""]>> ELSE <<>>)
        \o (IF o.name # None THEN <<[attr |-> "str", n |-> 0, s |-> o.name[1]]>> ELSE <<>>)
        \o <<[attr |-> "type", n |-> 0, s |-> o.type]>>

\* two Objects are built and compared with == and by their hashes
CompareObjects(args1, args2) ==
    /\ op = Idle
    /\ LET a == NewObject(args1)
           b == NewObject(args2)
       IN  IF a.exc # "" \/ b.exc # ""
           THEN last' = [op |-> "compare", exc |-> "ValueError", sent |-> 0, args1 |-> args1,
                         args2 |-> args2, eq |-> FALSE, same_hash |-> FALSE]
           ELSE last' = [op |-> "compare", exc |-> "", sent |-> 0, args1 |-> args1, args2 |-> args2,
                         eq |-> Equals(a, b, FALSE), same_hash |-> HashKey(a) = HashKey(b)]
    /\ UNCHANGED <<state, session, op, req>>
    /\ UNCHANGED entityVars

(***************************************************************************)
(* HTTPClient._stream, as HTTPClient.get_work_download_stream calls it     *)
(***************************************************************************)
\* "async with self._session.request(...) as response": the response while the block runs,
\* and after the block was left, when __aexit__ has released it
EnterContext(response) == [response |-> response, released |-> FALSE]
ExitContext(ctx) == [ctx EXCEPT !.released = TRUE]

\* the statuses the site answers a download with; _stream looks at none of them
StreamStatuses == {200, 404, 503}

\* how a call of _stream ended: the error raised ("" for none), the attempts made, the sleeps,
\* the failure of the connection if there was one, the status of the response, and whether
\* the response of the stream is still open when the caller has the stream
StreamOutcome(exc, sent, sleeps, transport, status, open) ==
    [op |-> "stream", exc |-> exc, sent |-> sent, sleeps |-> sleeps, transport |-> transport,
     status |-> status, open |-> open]

\* _stream up to "async with": the session, the headers
StreamStart(kwargs) ==
    /\ op = Idle
    /\ session' = StartSession(session)
    /\ LET r == NewRequest(state, Route("GET", <<Word("downloads"), Num(1), Word("title.epub}")>>),
                           "stream", kwargs)
       IN  IF r.pc = "done"
           THEN /\ last' = StreamOutcome(r.result.exc, 0, <<>>, "", 0, FALSE)
                /\ UNCHANGED <<op, req>>
           ELSE /\ op' = [name |-> "stream", stage |-> 1]
                /\ req' = [r EXCEPT !.pc = "stream"]
                /\ last' = NoLast
    /\ UNCHANGED state
    /\ UNCHANGED entityVars

\* the request is answered: "return response.content" leaves the async with block
StreamResponse(status) ==
    /\ op.name = "stream"
    /\ req.pc = "stream"
    /\ LET ctx == ExitContext(EnterContext(Response(status, None, None)))
       IN  last' = StreamOutcome("", req.attempts + 1, <<>>, "", status, ~ctx.released)
    /\ op' = Idle
    /\ req' = IdleRequest
    /\ UNCHANGED <<state, session>>
    /\ UNCHANGED entityVars

\* the connection fails: the except clause logs and sleeps, then the code after the try raises
StreamNetworkError ==
    /\ op.name = "stream"
    /\ req.pc = "stream"
    /\ last' = StreamOutcome("RuntimeError", req.attempts + 1, <<NetworkSleep>>, "ServerDisconnectedError",
                             0, FALSE)
    /\ op' = Idle
    /\ req' = IdleRequest
    /\ UNCHANGED <<state, session>>
    /\ UNCHANGED entityVars

(***************************************************************************)
(* Concurrent calls of _request on one HTTPClient.  The tasks of one event *)
(* loop interleave at their awaits only: _start_session and the code up to *)
(* the request run as one step, the wait for the response is another.      *)
(***************************************************************************)
Tasks == 1 .. MaxTasks

\* a task: where it is ("idle", "run" at the head of a pass of the loop, "wait" for the
\* response), the passes made, and the number of the session its request went out on
IdleTask == [pc |-> "idle", tries |-> 0, on |-> 0]

\* the sessions are numbered as they are created: made counts aiohttp.ClientSession(),
\* closes counts the sessions closed, called says whether _request was ever called
NoTasks == [name |-> "tasks", stage |-> 0, made |-> 0, closes |-> 0, called |-> FALSE,
            task |-> [t \in Tasks |-> IdleTask]]

\* a task calls _request: _start_session, the headers
TaskCall(t) ==
    /\ op.task[t].pc = "idle"
    /\ op' = [op EXCEPT !.made = IF NeedsSession(session) THEN @ + 1 ELSE @,
                        !.called = TRUE,
                        !.task[t] = [pc |-> "run", tries |-> 0, on |-> 0]]
    /\ session' = StartSession(session)
    /\ UNCHANGED <<state, req, last>>
    /\ UNCHANGED entityVars

\* the head of a pass: self._session.request(...) on the session of the moment, which
\* raises RuntimeError("Session is closed") when that session was closed
TaskSend(t) ==
    /\ op.task[t].pc = "run"
    /\ op' = IF session = "open"
             THEN [op EXCEPT !.task[t].pc = "wait", !.task[t].on = op.made]
             ELSE [op EXCEPT !.task[t] = IdleTask]
    /\ UNCHANGED <<state, session, req, last>>
    /\ UNCHANGED entityVars

\* the response arrives or the connection fails: the call ends, or another pass follows
TaskReceive(t, again) ==
    /\ op.task[t].pc = "wait"
    /\ op' = IF again /\ op.task[t].tries + 1 < MaxTries
             THEN [op EXCEPT !.task[t].pc = "run", !.task[t].tries = @ + 1]
             ELSE [op EXCEPT !.task[t] = IdleTask]
    /\ UNCHANGED <<state, session, req, last>>
    /\ UNCHANGED entityVars

\* HTTPClient.close(): if self._session and not self._session.closed
CloseSession ==
    /\ op.closes < MaxCloses
    /\ session = "open"
    /\ session' = "closed"
    /\ op' = [op EXCEPT !.closes = @ + 1]
    /\ UNCHANGED <<state, req, last>>
    /\ UNCHANGED entityVars

(***************************************************************************)
(* The search pages: Client.search_works, search_people, search_bookmarks  *)
(* and search_tags, Search.results and the reload() of each page class     *)
(***************************************************************************)
SearchKinds == {"WorkSearch", "PeopleSearch", "BookmarkSearch", "TagSearch"}

\* the fields of the options class of each kind, which are the keys of attrs.asdict(self)
OptionFields(k) ==
    CASE k = "WorkSearch" ->
            {"page", "any_field", "title", "author", "revised_at", "complete", "crossover",
             "single_chapter", "word_count", "language_id", "fandom_names", "rating_ids",
             "archive_warning_ids", "category_ids", "character_names", "relationship_names",
             "freeform_names", "hits", "kudos_count", "comments_count", "bookmarks_count",
             "excluded_tag_names", "sort_column", "sort_direction"}
      [] k = "PeopleSearch" -> {"page", "any_field", "names", "fandoms"}
      [] k = "BookmarkSearch" ->
            {"page", "any_field", "work_tags", "type", "language_id", "work_updated",
             "any_bookmark_field", "bookmark_tags", "bookmarker", "notes", "recommended",
             "with_notes", "bookmark_date", "sort_column"}
      [] k = "TagSearch" ->
            {"page", "name", "fandoms", "type", "wranging_status", "sort_column", "sort_direction"}

\* the keys to_dict() pops when their field is None
Popped(k) ==
    CASE k = "WorkSearch" -> {"complete", "crossover"}
      [] k = "TagSearch" -> {"wranging_status"}
      [] OTHER -> {}

\* search options: the page, the text searched for, and whether the fields that default to
\* None were given a value; every other field keeps its default
SearchOptions(page, query, optional) == [page |-> page, query |-> query, optional |-> optional]

\* the keys of options.to_dict()
ToDictKeys(k, options) ==
    IF options.optional THEN OptionFields(k) ELSE OptionFields(k) \ Popped(k)

\* the parameters of the search methods of HTTPClient
Parameters(method) ==
    CASE method = "search_works" ->
            {"page", "any_field", "title", "author", "revised_at", "complete", "crossover",
             "single_chapter", "word_count", "language_id", "fandom_names", "rating_ids",
             "archive_warning_ids", "category_ids", "character_names", "relationship_names",
             "freeform_names", "hits", "kudos_count", "comments_count", "bookmarks_count",
             "excluded_tag_names", "sort_column", "sort_direction"}
      [] method = "search_people" -> {"page", "any_field", "name", "fandom"}
      [] method = "search_bookmarks" ->
            {"page", "any_field", "work_tags", "type_", "language_id", "work_updated",
             "any_bookmark_field", "bookmark_tags", "bookmarker", "notes", "recommended",
             "with_notes", "bookmark_date", "sort_column"}
      [] method = "search_tags" ->
            {"name", "fandoms", "type_", "wranging_status", "sort_column", "sort_direction"}

\* method(**mapping): TypeError for a key that is no parameter of the method
Binds(method, keys) == keys \subseteq Parameters(method)

\* the method of HTTPClient each method of Client calls, and whether it passes
\* **options.to_dict() or positional arguments
ClientCall(k) ==
    CASE k = "WorkSearch" -> [method |-> "search_works", keywords |-> TRUE]
      [] k = "PeopleSearch" -> [method |-> "search_people", keywords |-> FALSE]
      [] k = "BookmarkSearch" -> [method |-> "search_bookmarks", keywords |-> TRUE]
      [] k = "TagSearch" -> [method |-> "search_people", keywords |-> TRUE]

\* self._http.search_...(**self.search_options.to_dict()) in reload()
ReloadCall(k) ==
    CASE k = "WorkSearch" -> [method |-> "search_works", keywords |-> TRUE]
      [] k = "PeopleSearch" -> [method |-> "search_people", keywords |-> TRUE]
      [] k = "BookmarkSearch" -> [method |-> "search_bookmarks", keywords |-> TRUE]
      [] k = "TagSearch" -> [method |-> "search_tags", keywords |-> TRUE]

\* Route("GET", "/works/search") and the like
SearchPath(method) ==
    CASE method = "search_works" -> <<Word("works"), Word("search")>>
      [] method = "search_people" -> <<Word("people"), Word("search")>>
      [] method = "search_bookmarks" -> <<Word("bookmarks"), Word("search")>>
      [] method = "search_tags" -> <<Word("tags"), Word("search")>>

\* the payload: the page and the text, the other entries being those of the defaults
SearchParams(options) == [key \in {"page", "query"} |-> IF key = "page" THEN options.page ELSE options.query]

SearchRequest(st, method, options) ==
    NewRequest(st, Route("GET", SearchPath(method)), "text",
               [key \in {"params"} |-> Some(SearchParams(options))])

\* a page of results as the site serves it: the document and the number of results on it
ResultPages(ver) == {[ver |-> ver, size |-> n] : n \in PageSizes}

\* how a search or the reload of a page ended: the exception, the requests sent, whether
\* the fetch returned a page, and the method and the payload of the request (None if no
\* request was made)
SearchOutcome(name, exc, sent, fetched, method, params) ==
    [op |-> name, exc |-> exc, sent |-> sent, fetched |-> fetched, method |-> method,
     params |-> params]

\* whether the page object was constructed
HasPage(sl) == "_search_options" \in DOMAIN sl

\* Client.search_works(options) and its siblings, up to the request
SearchStart(options) ==
    /\ op = Idle
    /\ kind \in SearchKinds
    /\ ~HasPage(slots)
    /\ LET c == ClientCall(kind)
       IN  IF c.keywords /\ ~Binds(c.method, ToDictKeys(kind, options))
           THEN /\ last' = SearchOutcome("search", "TypeError", 0, FALSE, None, None)
                /\ UNCHANGED <<op, session, req>>
           ELSE /\ op' = [name |-> "search", stage |-> 1, options |-> options, method |-> c.method,
                          pages |-> ResultPages(1)]
                /\ session' = StartSession(session)
                /\ req' = SearchRequest(state, c.method, options)
                /\ last' = NoLast
    /\ UNCHANGED state
    /\ UNCHANGED entityVars

\* element = html.fromstring(text); payload = {"_search_options": options}; Search.__init__
SearchContinue ==
    /\ op.name = "search"
    /\ req.pc = "done"
    /\ op' = Idle
    /\ req' = IdleRequest
    /\ IF req.result.kind = "raise"
       THEN /\ last' = SearchOutcome("search", req.result.exc, req.attempts, FALSE,
                                     Some(op.method), req.kwargs.params)
            /\ UNCHANGED <<element, slots>>
       ELSE /\ element' = req.result.response[1].body
            /\ slots' = Dict1("_search_options", op.options)
            /\ last' = SearchOutcome("search", "", req.attempts, TRUE, Some(op.method),
                                     req.kwargs.params)
    /\ lastRead' = NoRead
    /\ UNCHANGED <<state, session, kind, unread, reads, bm_calls>>

\* Search.results: UnloadedError without a document, else self._get_results()
ResultsProvider(el) ==
    IF el = None THEN [exc |-> "UnloadedError", value |-> NoValue]
    ELSE [exc |-> "", value |-> Value("results", el[1].ver, Some(el[1].size))]

\* a read of page.results
ReadResults ==
    /\ op = Idle
    /\ HasPage(slots)
    /\ LET g == CachedGet("_cs_results", ResultsProvider(element), TRUE, slots)
       IN  /\ slots' = g.slots
           /\ lastRead' = [prop |-> "results", invoked |-> g.invoked, outcome |-> g.outcome,
                           fresh |-> g.outcome = "value" => g.value.doc = DocVer(element),
                           first |-> FALSE, same |-> TRUE, val |-> g.value.val,
                           session |-> state.tag]
    /\ UNCHANGED <<kind, element, unread, reads, bm_calls>>
    /\ UNCHANGED httpVars

\* reload() of a search page, up to the request
SearchReloadStart ==
    /\ op = Idle
    /\ HasPage(slots)
    /\ DocVer(element) < MaxDocs
    /\ LET c == ReloadCall(kind)
           options == slots["_search_options"]
       IN  IF ~Binds(c.method, ToDictKeys(kind, options))
           THEN /\ last' = SearchOutcome("search_reload", "TypeError", 0, FALSE, None, None)
                /\ UNCHANGED <<op, session, req>>
           ELSE /\ op' = [name |-> "search_reload", stage |-> 1, method |-> c.method,
                          pages |-> ResultPages(DocVer(element) + 1)]
                /\ session' = StartSession(session)
                /\ req' = SearchRequest(state, c.method, options)
                /\ last' = NoLast
    /\ UNCHANGED state
    /\ UNCHANGED entityVars

\* self._element = html.fromstring(text); del self._cs_results
SearchReloadContinue ==
    /\ op.name = "search_reload"
    /\ req.pc = "done"
    /\ op' = Idle
    /\ req' = IdleRequest
    /\ IF req.result.kind = "raise"
       THEN /\ last' = SearchOutcome("search_reload", req.result.exc, req.attempts, FALSE,
                                     Some(op.method), req.kwargs.params)
            /\ UNCHANGED <<element, slots>>
       ELSE /\ element' = req.result.response[1].body
            /\ IF "_cs_results" \in DOMAIN slots
               THEN /\ slots' = [s \in DOMAIN slots \ {"_cs_results"} |-> slots[s]]
                    /\ last' = SearchOutcome("search_reload", "", req.attempts, TRUE,
                                             Some(op.method), req.kwargs.params)
               ELSE /\ slots' = slots
                    /\ last' = SearchOutcome("search_reload", "AttributeError", req.attempts, TRUE,
                                             Some(op.method), req.kwargs.params)
    /\ lastRead' = NoRead
    /\ UNCHANGED <<state, session, kind, unread, reads, bm_calls>>

(***************************************************************************)
(* Every attribute of Work, Series and User that is computed from the      *)
(* document: what its provider does without a document, with a document    *)
(* that has what the provider looks for, with one that lacks it, and with  *)
(* one where it is there but malformed                                     *)
(***************************************************************************)
Attributes(k) ==
    CASE k = "Work" ->
            {"title", "authors", "summary", "series", "is_restricted", "rating", "warnings",
             "categories", "fandoms", "relationships", "characters", "freeforms", "language",
             "date_published", "date_updated", "nwords", "nchapters", "ncomments", "nkudos",
             "nbookmarks", "nhits"}
      [] k = "Series" ->
            {"name", "creators", "date_begun", "date_updated", "description", "notes", "nwords",
             "nworks", "is_complete", "nbookmarks", "works_list"}
      [] k = "User" ->
            {"id", "avatar_url", "pseuds", "date_joined", "bio", "nworks", "nseries",
             "nbookmarks", "ncollections", "ngifts"}

\* the name given to cached_slot_property for each attribute, as prefix and rest
AttrSlot(k, a) ==
    CASE a = "id" -> <<"_", "id">>
      [] a = "is_restricted" -> <<"_cs_", "restricted">>
      [] k = "Series" /\ a = "is_complete" -> <<"_cs_", "nworks">>
      [] OTHER -> <<"_cs_", a>>

\* the names in __slots__ of each class that cached_slot_property is given
DeclaredSlots(k) ==
    CASE k = "Work" -> {AttrSlot(k, a) : a \in Attributes(k)}
      [] k = "Series" -> {AttrSlot(k, a) : a \in Attributes(k)} \cup {<<"_cs_", "is_complete">>}
      [] k = "User" -> {AttrSlot(k, a) : a \in Attributes(k) \ {"bio"}}

\* "if self.raw_element is None": the attributes that return a value then, the others
\* raise UnloadedError
NeutralUnloaded(k) ==
    CASE k = "Work" -> {"is_restricted", "language"}
      [] k = "Series" -> {"description", "notes"}
      [] k = "User" -> {}

\* the body of each provider after that test: "guarded" is a lookup and a conversion inside
\* try/except (IndexError, ValueError) with the neutral value returned in the handler,
\* "total" a comprehension or a len() over the nodes selected, "index" and "int" a
\* comprehension with an unguarded [1] or int(), "banner" one with Work._from_banner
Parsing(k, a) ==
    CASE a \in {"authors", "creators"} -> "index"
      [] a = "series" -> "int"
      [] a = "works_list" -> "banner"
      [] a \in {"is_restricted", "warnings", "categories", "fandoms", "relationships", "characters",
                "freeforms", "pseuds"} -> "total"
      [] OTHER -> "guarded"

\* what a document has where the providers look
DocShapes == {"good", "missing", "malformed"}
ShapedDoc(ver, shape) == [ver |-> ver, shape |-> shape]

\* the value a provider returns: parsed from the nodes, or the neutral default
Parsed(a, ver) == Value(a, ver, Some("parsed"))
Neutral(a, ver) == Value(a, ver, Some("neutral"))

\* the provider of attribute a of an entity of kind k
AttrProvider(k, a, el) ==
    IF el = None
    THEN IF a \in NeutralUnloaded(k) THEN [exc |-> "", value |-> Neutral(a, 0)]
         ELSE [exc |-> "UnloadedError", value |-> NoValue]
    ELSE LET doc == el[1]
             how == Parsing(k, a)
         IN  CASE how = "guarded" ->
                    [exc |-> "", value |-> IF doc.shape = "good" THEN Parsed(a, doc.ver)
                                           ELSE Neutral(a, doc.ver)]
               [] how = "total" -> [exc |-> "", value |-> Parsed(a, doc.ver)]
               [] how = "index" ->
                    IF doc.shape = "malformed" THEN [exc |-> "IndexError", value |-> NoValue]
                    ELSE [exc |-> "", value |-> Parsed(a, doc.ver)]
               [] how = "int" ->
                    IF doc.shape = "malformed" THEN [exc |-> "ValueError", value |-> NoValue]
                    ELSE [exc |-> "", value |-> Parsed(a, doc.ver)]
               [] how = "banner" ->
                    IF doc.shape = "malformed" THEN [exc |-> "AO3Exception", value |-> NoValue]
                    ELSE [exc |-> "", value |-> Parsed(a, doc.ver)]

\* what a read of attribute a does on an entity with the slots sl
AttrGet(k, a, el, sl) ==
    CachedGet(AttrSlot(k, a), AttrProvider(k, a, el), AttrSlot(k, a) \in DeclaredSlots(k), sl)

\* a read of attribute a of the entity
ReadAttribute(a) ==
    /\ op = Idle
    /\ a \in Attributes(kind)
    /\ LET slot == AttrSlot(kind, a)
           g == AttrGet(kind, a, element, slots)
       IN  /\ slot \in DOMAIN slots \/ Cardinality(DOMAIN slots) < MaxAttrReads
           /\ slots' = g.slots
           /\ lastRead' = [prop |-> a, invoked |-> g.invoked, outcome |-> g.outcome,
                           fresh |-> g.outcome = "value" => g.value.doc = DocVer(element),
                           first |-> FALSE, same |-> TRUE, val |-> g.value.val,
                           session |-> state.tag]
    /\ UNCHANGED <<kind, element, unread, reads, bm_calls>>
    /\ UNCHANGED httpVars

(***************************************************************************)
(* Work._from_banner: a Work built from one entry of a listing, its cache  *)
(* seeded from the fragment.  A value is written as the kind of value it   *)
(* is: "list", "tuple", "str", "None", "int", ...                          *)
(***************************************************************************)
\* the parts of a fragment: the link to the work, the links to authors and series, the
\* summary and the rating, the tags, the date, the counts, dd.chapters
FragmentParts == {"link", "links", "texts", "tags", "date", "counts", "chapters"}
\* the fragments tried: at most one part is missing or malformed
Fragments ==
    {f \in [FragmentParts -> DocShapes] : Cardinality({p \in FragmentParts : f[p] # "good"}) <= 1}

\* the part of the fragment each seeded attribute is taken from
PartOf(a) ==
    CASE a = "title" -> "link"
      [] a \in {"authors", "series"} -> "links"
      [] a \in {"summary", "rating"} -> "texts"
      [] a \in {"warnings", "categories", "fandoms", "relationships", "characters", "freeforms",
                "is_restricted", "language"} -> "tags"
      [] a = "date_updated" -> "date"
      [] a \in {"nwords", "ncomments", "nkudos", "nbookmarks", "nhits"} -> "counts"
      [] a = "nchapters" -> "chapters"

\* the attributes whose slot the payload sets
Seeded == {"title", "authors", "is_restricted", "series", "summary", "rating", "warnings",
           "categories", "fandoms", "relationships", "characters", "freeforms", "language",
           "date_updated", "nwords", "nchapters", "ncomments", "nkudos", "nbookmarks", "nhits"}

\* the exception _from_banner ends in, "" if it returns a Work: the first of its lines that
\* raises outside a handler that catches it
BannerError(f) ==
    IF f["link"] = "missing" THEN "AO3Exception"
    ELSE IF f["links"] = "malformed" THEN "IndexError"
    ELSE IF f["date"] = "malformed" THEN "ValueError"
    ELSE IF f["chapters"] = "missing" THEN "IndexError"
    ELSE ""

\* the value the payload holds for attribute a
BannerValue(a, f) ==
    LET shape == f[PartOf(a)]
    IN  CASE a = "title" -> "str"
          [] a \in {"authors", "series", "warnings", "fandoms", "relationships", "characters",
                    "freeforms"} -> "list"
          [] a = "categories" -> IF shape = "missing" THEN "None" ELSE "list"
          [] a \in {"summary", "rating"} -> IF shape = "missing" THEN "None" ELSE "str"
          [] a = "is_restricted" -> "bool"
          [] a = "language" -> "Language"
          [] a = "date_updated" -> IF shape = "missing" THEN "None" ELSE "datetime"
          [] a \in {"nwords", "ncomments", "nkudos", "nbookmarks", "nhits"} ->
                IF shape = "good" THEN "int" ELSE "None"
          [] a = "nchapters" -> "pair"

\* cls(http, payload=payload): the slots of the new Work, which has no document
BannerSlots(f) ==
    LET names == {AttrSlot("Work", a) : a \in Seeded}
        of(s) == CHOOSE a \in Seeded : AttrSlot("Work", a) = s
    IN  [s \in names |-> Value(of(s), 0, Some(BannerValue(of(s), f)))]

\* how the construction ended, and the fragment it was given
BannerOutcome(exc, f) == [op |-> "from_banner", exc |-> exc, sent |-> 0, fragment |-> f]

FromBanner(f) ==
    /\ op = Idle
    /\ last = NoLast
    /\ slots = EmptyDict
    /\ kind = "Work"
    /\ element = None
    /\ last' = BannerOutcome(BannerError(f), f)
    /\ slots' = IF BannerError(f) = "" THEN BannerSlots(f) ELSE slots
    /\ lastRead' = NoRead
    /\ UNCHANGED <<state, session, op, req, kind, element, unread, reads, bm_calls>>

(***************************************************************************)
(* Tasks that read one attribute of one entity.  CachedSlotProperty.__get__*)
(* and the providers have no await: a read is one step of its task.        *)
(***************************************************************************)
\* the attribute the tasks read ("" before the first read), the calls of its provider, and
\* for each task what its read returned or raised (None before its read)
NoReaders == [name |-> "readers", stage |-> 0, attr |-> "", calls |-> 0, got |-> [t \in Tasks |-> None]]

\* task t reads attribute a
TaskRead(t, a) ==
    /\ op.name = "readers"
    /\ a \in Attributes(kind)
    /\ op.attr \in {"", a}
    /\ op.got[t] = None
    /\ LET g == AttrGet(kind, a, element, slots)
       IN  /\ slots' = g.slots
           /\ op' = [op EXCEPT !.attr = a,
                               !.calls = IF g.invoked THEN @ + 1 ELSE @,
                               !.got[t] = Some([outcome |-> g.outcome, value |-> g.value])]
           /\ lastRead' = [prop |-> a, invoked |-> g.invoked, outcome |-> g.outcome,
                           fresh |-> g.outcome = "value" => g.value.doc = DocVer(element),
                           first |-> FALSE, same |-> TRUE, val |-> g.value.val,
                           session |-> state.tag]
    /\ UNCHANGED <<state, session, req, last, kind, element, unread, reads, bm_calls>>

(***************************************************************************)
(* Tasks that call bookmark() on one entity.  bookmark() runs without an   *)
(* await from its first line to the await of HTTPClient.bookmark, and      *)
(* again from the response to its end.                                     *)
(***************************************************************************)
\* each task's call of _request, how the task's bookmark() ended (None while it has not),
\* the requests that reached the site, and whether a call began while another was in flight
NoBookmarkers ==
    [name |-> "bookmarkers", stage |-> 0, call |-> [t \in Tasks |-> IdleRequest],
     ended |-> [t \in Tasks |-> None], sent |-> 0, overlap |-> FALSE]

\* lines 194-207 of bookmark(): the token, the checks, and the slots after the reads
BookmarkChecks(k, el, st, sl) ==
    LET g1 == Get(k, "authenticity_token", el, st, sl)
        auth_token == IF st.tag = "AuthState" THEN Some(st.login_token) ELSE g1.value.val
        g2 == Get(k, "bookmark_id", el, st, g1.slots)
    IN  [token |-> auth_token,
         exc |-> IF auth_token = None THEN "AuthError"
                 ELSE IF el = None THEN "UnloadedError"
                 ELSE IF g2.value.val # None THEN "BookmarkError"
                 ELSE IF ~el[1].pseud THEN "PseudError"
                 ELSE "",
         slots |-> IF auth_token # None /\ el # None THEN g2.slots ELSE g1.slots]

\* task t calls bookmark(): up to the await of HTTPClient.bookmark
TaskBookmark(t) ==
    /\ op.name = "bookmarkers"
    /\ op.call[t].pc = "idle"
    /\ op.ended[t] = None
    /\ LET c == BookmarkChecks(kind, element, state, slots)
       IN  /\ slots' = c.slots
           /\ IF c.exc # ""
              THEN /\ op' = [op EXCEPT !.ended[t] = Some(c.exc)]
                   /\ UNCHANGED session
              ELSE /\ op' = [op EXCEPT !.call[t] = BookmarkRequest(state, kind, c.token[1]),
                                       !.overlap = @ \/ \E u \in Tasks \ {t} : op.call[u].pc # "idle"]
                   /\ session' = StartSession(session)
    /\ UNCHANGED <<state, req, last, kind, element, lastRead, unread, reads, bm_calls>>

\* the site answers the request of task t
TaskBookmarkResponse(t, response) ==
    /\ op.name = "bookmarkers"
    /\ op.call[t].pc = "run"
    /\ op' = [op EXCEPT !.call[t] = OnResponse(@, response), !.sent = @ + 1]
    /\ UNCHANGED <<state, session, req, last>>
    /\ UNCHANGED entityVars

\* task t goes on after the await: except HTTPException -> BookmarkError, else
\* self._cs_bookmark_id = int(resp.url.parts[-1])
TaskBookmarkEnd(t) ==
    /\ op.name = "bookmarkers"
    /\ op.call[t].pc = "done"
    /\ LET r == op.call[t]
           url == ResponseURL(r)
           id == IntOf(url[Len(url)])
           exc == IF r.result.kind = "raise"
                  THEN IF r.result.exc = "HTTPException" THEN "BookmarkError" ELSE r.result.exc
                  ELSE IF id = None THEN "ValueError" ELSE ""
       IN  /\ slots' = IF exc = ""
                       THEN [s \in DOMAIN slots \cup {"_cs_bookmark_id"} |->
                                IF s = "_cs_bookmark_id" THEN Value("bookmark", DocVer(element), id)
                                ELSE slots[s]]
                       ELSE slots
           /\ op' = [op EXCEPT !.call[t] = IdleRequest, !.ended[t] = Some(exc)]
    /\ UNCHANGED <<state, session, req, last, kind, element, lastRead, unread, reads, bm_calls>>

(***************************************************************************)
(* Tasks that call _request on one transport.  tries, response and the     *)
(* sleeps are locals of each call; a call is suspended at the await of the *)
(* response and at the await of asyncio.sleep.                             *)
(***************************************************************************)
\* each task's call of _request
NoCallers == [name |-> "callers", stage |-> 0, call |-> [t \in Tasks |-> IdleRequest]]

\* what the site answers to these calls: too many requests, a server error, or the page
CallerResponses ==
    {Response(429, Some(1), None), Response(503, None, None), Response(200, None, None)}

\* task t calls _request
TaskRequest(t) ==
    /\ op.name = "callers"
    /\ op.call[t].pc = "idle"
    /\ op' = [op EXCEPT !.call[t] = NewRequest(state, Route("GET", <<Word("works"), Num(1)>>),
                                                "text", Kwargs(FALSE, None, EmptyDict))]
    /\ session' = StartSession(session)
    /\ UNCHANGED <<state, req, last>>
    /\ UNCHANGED entityVars

\* one pass of the loop of task t: the response, and the sleep that follows it
TaskPassMutant(t, response) ==
    /\ op.name = "callers"
    /\ op.call[t].pc = "run"
    /\ response \in CallerResponses
    /\ op' = [op EXCEPT !.call = [u \in Tasks |->
                 IF u = t THEN OnResponse(op.call[u], response)
                 ELSE IF response.status = 429 /\ op.call[u].pc = "run"
                 THEN [op.call[u] EXCEPT !.tries = @ + 1,
                                         !.sleeps = Append(@, RatelimitSleep(response.retry[1]))]
                 ELSE op.call[u]]]
    /\ UNCHANGED <<state, session, req, last>>
    /\ UNCHANGED entityVars
TaskPass(t, response) ==
    /\ op.name = "callers"
    /\ op.call[t].pc = "run"
    /\ response \in CallerResponses
    /\ op' = [op EXCEPT !.call[t] = OnResponse(@, response)]
    /\ UNCHANGED <<state, session, req, last>>
    /\ UNCHANGED entityVars

(***************************************************************************)
(* work_search_pages, bookmark_search_pages and tag_search_pages with the  *)
(* objects they handle: the caller's options object, and the page objects  *)
(* yielded, each with a reference to the options object it was given       *)
(***************************************************************************)
\* the one options object of the iteration: the object the caller passed
Caller == "options"

\* payload = {"_search_options": options}: the object the page is given
Kept(options_ref) == options_ref

\* a page object: the page number its document was fetched with, the options object it
\* refers to, its document, and whether _cs_results is set
PageObject(page_num, ref, doc, has_results) ==
    [fetched |-> page_num, search_options |-> ref, doc |-> doc, results |-> has_results]

\* the iteration: the objects that options references lead to, the loop variable, the
\* pages yielded so far, how the iteration ended (None while it has not), and the page
\* whose reload() is in progress (0 for none)
NoIteration ==
    [name |-> "iterate", stage |-> 0, objects |-> [o \in {} |-> 0], stop |-> 0, page_num |-> 0,
     method |-> "", yielded |-> <<>>, ended |-> None, reloading |-> 0, pages |-> {}]

\* one __anext__() from "options.page = page_num" to the await in search_works: the
\* request of the page, or the TypeError of the call that does not bind
IterateFetch(o, page_num) ==
    LET objects == [o.objects EXCEPT ![Caller].page = page_num]
        c == ClientCall(kind)
    IN  IF ~Binds(c.method, ToDictKeys(kind, objects[Caller]))
        THEN [op |-> [o EXCEPT !.objects = objects, !.page_num = page_num, !.stage = 0,
                               !.ended = Some("TypeError")],
              req |-> IdleRequest]
        ELSE [op |-> [o EXCEPT !.objects = objects, !.page_num = page_num, !.stage = 1,
                               !.method = c.method, !.pages = ResultPages(1)],
              req |-> SearchRequest(state, c.method, objects[Caller])]

\* the first __anext__(): the for statement takes its first page number, or ends
IterateStart(options, start, stop) ==
    /\ op.name = "iterate"
    /\ op.objects = NoIteration.objects
    /\ LET o == [op EXCEPT !.objects = [ref \in {Caller} |-> options], !.stop = stop]
       IN  IF InRange(start, stop)
           THEN /\ op' = IterateFetch(o, start).op
                /\ req' = IterateFetch(o, start).req
                /\ session' = StartSession(session)
           ELSE /\ op' = [o EXCEPT !.ended = Some("")]
                /\ UNCHANGED <<req, session>>
    /\ UNCHANGED <<state, last>>
    /\ UNCHANGED entityVars

\* the rest of one pass once search_works has its answer: the page object, the read of its
\* results, the yield, and the next __anext__() of the caller
IterateContinue ==
    /\ op.name = "iterate"
    /\ op.stage = 1
    /\ op.reloading = 0
    /\ req.pc = "done"
    /\ LET r == req.result
           page == PageObject(op.page_num, Kept(Caller), r.response[1].body, TRUE)
           o == [op EXCEPT !.yielded = Append(@, page), !.stage = 0]
       IN  IF r.kind = "raise"
           THEN /\ op' = [op EXCEPT !.stage = 0, !.ended = Some(r.exc)]
                /\ req' = IdleRequest
           ELSE IF r.response[1].body[1].size = 0
           THEN /\ op' = [op EXCEPT !.stage = 0,
                                    !.ended = Some(RaisedInGenerator("StopAsyncIteration"))]
                /\ req' = IdleRequest
           ELSE IF InRange(op.page_num + 1, op.stop)
           THEN /\ op' = IterateFetch(o, op.page_num + 1).op
                /\ req' = IterateFetch(o, op.page_num + 1).req
           ELSE /\ op' = [o EXCEPT !.ended = Some("")]
                /\ req' = IdleRequest
    /\ UNCHANGED <<state, session, last>>
    /\ UNCHANGED entityVars

\* the first reload() of a page once the iteration is over, of the i-th page yielded, up
\* to the request: self._http.search_works(**self.search_options.to_dict())
PageReloadStart(i) ==
    /\ op.name = "iterate"
    /\ op.ended # None
    /\ op.reloading = 0
    /\ i \in 1 .. Len(op.yielded)
    /\ \A j \in 1 .. Len(op.yielded) : op.yielded[j].results
    /\ LET c == ReloadCall(kind)
           options == op.objects[op.yielded[i].search_options]
       IN  /\ op' = [op EXCEPT !.stage = 1, !.reloading = i, !.method = c.method,
                               !.pages = ResultPages(DocVer(op.yielded[i].doc) + 1)]
           /\ req' = SearchRequest(state, c.method, options)
    /\ last' = NoLast
    /\ session' = StartSession(session)
    /\ UNCHANGED state
    /\ UNCHANGED entityVars

\* self._element = html.fromstring(text); del self._cs_results
PageReloadContinue ==
    /\ op.name = "iterate"
    /\ op.reloading # 0
    /\ req.pc = "done"
    /\ LET i == op.reloading
           page == op.yielded[i]
           exc == IF req.result.kind = "raise" THEN req.result.exc
                  ELSE IF ~page.results THEN "AttributeError" ELSE ""
       IN  /\ op' = [op EXCEPT !.stage = 0, !.reloading = 0,
                               !.yielded[i] = IF req.result.kind = "raise" THEN page
                                              ELSE [page EXCEPT !.doc = req.result.response[1].body,
                                                                !.results = FALSE]]
           /\ last' = [op |-> "page_reload", exc |-> exc, sent |-> req.attempts,
                       page |-> page, requested |-> req.kwargs.params[1].page]
    /\ req' = IdleRequest
    /\ UNCHANGED <<state, session>>
    /\ UNCHANGED entityVars

(***************************************************************************)
(* The transport on its own: direct calls of _request, login and logout    *)
(***************************************************************************)
InitTransport ==
    /\ state = NoState
    /\ session = "None"
    /\ op = Idle
    /\ req = IdleRequest
    /\ last = NoLast

InitHTTP ==
    /\ InitTransport
    /\ kind = "Work"
    /\ element = Some(Doc(1, None, None, TRUE, Some("C1")))
    /\ slots = EmptyDict
    /\ lastRead = NoRead
    /\ unread = {}
    /\ reads = NoReads(kind)
    /\ bm_calls = <<>>

NextHTTP ==
    \/ \E in \in CallerInputs : CallRequest(in[1], in[2])
    \/ \E response \in SiteResponses(op) : RequestResponse(response)
    \/ RequestNetworkError
    \/ FinishRequest
    \/ \E complete \in BOOLEAN : LoginStart(complete)
    \/ LoginContinue
    \/ LogoutStart
    \/ LogoutContinue

SpecHTTP == InitHTTP /\ [][NextHTTP]_vars

(***************************************************************************)
(* An entity fetched by Client.get_work, get_series or get_user, and used  *)
(***************************************************************************)
Init ==
    /\ InitTransport
    /\ kind \in {"Work", "Series", "User"}
    /\ element \in {Some(d) : d \in PlainDocs(kind, 1)}
    /\ slots = EmptyDict
    /\ lastRead = NoRead
    /\ unread = {}
    /\ reads = NoReads(kind)
    /\ bm_calls = <<>>

Next ==
    \/ \E p \in Properties(kind) : ReadProperty(p)
    \/ ReloadStart(PlainDocs(kind, DocVer(element) + 1))
    \/ \E response \in SiteResponses(op) : RequestResponse(response)
    \/ ReloadContinue

Spec == Init /\ [][Next]_vars

\* C1: in every reachable state, after any reads, reloads that succeed and reloads that end
\* in an error, every populated cached slot other than the identity fields holds a value
\* computed from the current backing document, and no read returns a value computed from a
\* document that has been replaced.
C1_NoStaleCache ==
    /\ \A s \in DOMAIN slots \cap ResetSlots(kind) : slots[s].doc = DocVer(element)
    /\ lastRead.fresh

\* C2: after reload() returns, the first read of each cached property other than the
\* identity fields invokes its provider against the new document and returns that value.
C2_FirstReadAfterReload ==
    lastRead.first
    => (lastRead.invoked /\ lastRead.outcome = "value" /\ lastRead.fresh)

\* C3: between two reloads, the reads of one cached property invoke its provider at most
\* once, and every read returns the identical value.
C3_ComputedOnce ==
    /\ \A p \in Properties(kind) : reads[p].n <= 1
    /\ lastRead.same

\* C30: a reload whose fetch returned the page ends without an exception, whichever cached
\* properties were read before it, none of them included.
C30_ReloadCompletes ==
    (last.op = "reload" /\ last.fetched) => last.exc = ""

(***************************************************************************)
(* A Work or Series, loaded or not, the session, and bookmark()            *)
(***************************************************************************)
InitBookmark ==
    /\ InitTransport
    /\ kind \in {"Work", "Series"}
    /\ element \in {None} \cup {Some(d) : d \in SiteDocs(kind, 1)}
    /\ slots = EmptyDict
    /\ lastRead = NoRead
    /\ unread = {}
    /\ reads = NoReads(kind)
    /\ bm_calls = <<>>

NextBookmark ==
    \/ LoginStart(TRUE)
    \/ LoginContinue
    \/ LogoutStart
    \/ LogoutContinue
    \/ ReadProperty("bookmark_id")
    \/ BookmarkStart
    \/ BookmarkContinue
    \/ \E response \in SiteResponses(op) : RequestResponse(response)

SpecBookmark == InitBookmark /\ [][NextBookmark]_vars

\* C10: bookmark() called twice in sequence on a loaded, not yet bookmarked Work or Series
\* while logged in: the first call returns normally and leaves bookmark_id set to the new
\* bookmark's id; the second call fails with BookmarkError and sends no request.
C10_BookmarkTwice ==
    \A i \in 1..Len(bm_calls) :
        (bm_calls[i].ready /\ bm_calls[i].accepted # None)
        => /\ bm_calls[i].exc = ""
           /\ bm_calls[i].after = [set |-> TRUE, val |-> bm_calls[i].accepted]
           /\ (i < Len(bm_calls) /\ bm_calls[i + 1].prior = "bookmark")
              => (bm_calls[i + 1].exc = "BookmarkError" /\ bm_calls[i + 1].sent = 0)

\* the first of bookmark()'s precondition checks that fails for what held at the call, in the
\* order no token, no document, bookmark_id set, no pseud id; "" when all of them pass
BookmarkCheck(pre) ==
    IF pre.login_token = None /\ pre.own = None THEN "AuthError"
    ELSE IF ~pre.loaded THEN "UnloadedError"
    ELSE IF ~pre.bookmark_id.ok \/ pre.bookmark_id.val # None THEN "BookmarkError"
    ELSE IF ~pre.pseud THEN "PseudError"
    ELSE ""

\* C11: bookmark() checks its preconditions in the order no token -> AuthError, no document
\* -> UnloadedError, bookmark_id not None -> BookmarkError, no pseud id -> PseudError, and
\* when a check fails no request is sent and bookmark_id keeps its value.
C11_BookmarkChecksInOrder ==
    (last.op = "bookmark" /\ BookmarkCheck(last.pre) # "")
    => /\ last.exc = BookmarkCheck(last.pre)
       /\ last.sent = 0
       /\ last.bookmark_id = last.pre.bookmark_id

(***************************************************************************)
(* A Work or Series, loaded or not, the session, and every write action    *)
(***************************************************************************)
InitWrite ==
    /\ InitTransport
    /\ kind \in {"Work", "Series"}
    /\ element \in {None} \cup {Some(d) : d \in SiteDocs(kind, 1)}
    /\ slots = EmptyDict
    /\ lastRead = NoRead
    /\ unread = {}
    /\ reads = NoReads(kind)
    /\ bm_calls = <<>>

NextWrite ==
    \/ LoginStart(TRUE)
    \/ LoginContinue
    \/ LogoutStart
    \/ LogoutContinue
    \/ \E name \in WriteActions : WriteStart(name)
    \/ WriteContinue
    \/ \E response \in SiteResponses(op) : RequestResponse(response)
    \/ RequestNetworkError
    \/ RequestUnreachable

SpecWrite == InitWrite /\ [][NextWrite]_vars

(***************************************************************************)
(* A client that is not logged in iterating over pages of search results   *)
(***************************************************************************)
PageStarts == 1 .. 2
PageSteps == 1 .. 2

NextPages ==
    \/ \E start \in PageStarts, stop \in 1 .. MaxStop, step \in PageSteps : PagesStart(start, stop, step)
    \/ PagesContinue
    \/ \E response \in SiteResponses(op) : RequestResponse(response)

SpecPages == InitHTTP /\ [][NextPages]_vars

(***************************************************************************)
(* Search options and lightweight references: values built and converted   *)
(***************************************************************************)
NextValues ==
    \/ \E c \in Constraints : ReadConstraintString(c)
    \/ \E names \in NameLists, c \in OptionConstraints : CallToDict(names, c)
    \/ \E args1 \in ObjectArgs, args2 \in ObjectArgs : CompareObjects(args1, args2)

SpecValues == InitHTTP /\ [][NextValues]_vars

(***************************************************************************)
(* Downloads by a client that may log in and out                           *)
(***************************************************************************)
NextStream ==
    \/ \E kwargs \in {ParamsOnly, FormPost} : StreamStart(kwargs)
    \/ \E status \in StreamStatuses : StreamResponse(status)
    \/ StreamNetworkError
    \/ LoginStart(TRUE)
    \/ LoginContinue
    \/ LogoutStart
    \/ LogoutContinue
    \/ \E response \in SiteResponses(op) : RequestResponse(response)
    \/ RequestNetworkError

SpecStream == InitHTTP /\ [][NextStream]_vars

(***************************************************************************)
(* Tasks that share one HTTPClient                                         *)
(***************************************************************************)
InitTasks ==
    /\ state = NoState
    /\ session = "None"
    /\ op = NoTasks
    /\ req = IdleRequest
    /\ last = NoLast
    /\ kind = "Work"
    /\ element = Some(Doc(1, None, None, TRUE, Some("C1")))
    /\ slots = EmptyDict
    /\ lastRead = NoRead
    /\ unread = {}
    /\ reads = NoReads(kind)
    /\ bm_calls = <<>>

NextTasks ==
    \/ \E t \in Tasks : TaskCall(t)
    \/ \E t \in Tasks : TaskSend(t)
    \/ \E t \in Tasks, again \in BOOLEAN : TaskReceive(t, again)
    \/ CloseSession

SpecTasks == InitTasks /\ [][NextTasks]_vars

\* C23: however the concurrent calls of _request interleave, there is no session before
\* the first call and one from then on, a session is created only when there is none or
\* the last one was closed, and every request in flight on a session that is still open
\* is on the one current session.
C23_OneSharedSession ==
    op.name = "tasks"
    => /\ (session = "None") <=> ~op.called
       /\ op.made <= op.closes + 1
       /\ (session = "open") <=> (op.made = op.closes + 1)
       /\ \A t \in Tasks :
            (op.task[t].pc = "wait" /\ op.task[t].on > op.closes) => op.task[t].on = op.made

\* two requests in flight at once on the one open session
C23_Witness ==
    /\ op.name = "tasks"
    /\ session = "open"
    /\ \E t, u \in Tasks :
         /\ t # u
         /\ op.task[t].pc = "wait" /\ op.task[u].pc = "wait"
         /\ op.task[t].on = op.made /\ op.task[u].on = op.made


(***************************************************************************)
(* A search of each kind, reads of its results and reloads of its page     *)
(***************************************************************************)
SearchQueries == {"a", "b"}

InitSearch ==
    /\ InitTransport
    /\ kind \in SearchKinds
    /\ element = None
    /\ slots = EmptyDict
    /\ lastRead = NoRead
    /\ unread = {}
    /\ reads = EmptyDict
    /\ bm_calls = <<>>

NextSearch ==
    \/ \E page \in 1 .. 2, query \in SearchQueries, optional \in BOOLEAN :
            SearchStart(SearchOptions(page, query, optional))
    \/ \E response \in SiteResponses(op) : RequestResponse(response)
    \/ SearchContinue
    \/ ReadResults
    \/ SearchReloadStart
    \/ SearchReloadContinue

SpecSearch == InitSearch /\ [][NextSearch]_vars

\* the search method reload() has to call for a page of each kind
SearchMethod(k) ==
    CASE k = "WorkSearch" -> "search_works"
      [] k = "PeopleSearch" -> "search_people"
      [] k = "BookmarkSearch" -> "search_bookmarks"
      [] k = "TagSearch" -> "search_tags"

\* C21: reload() on a search page of any kind sends the search request of that kind with
\* the option values of the page; when the fetch returns a page, reload() ends without an
\* exception and leaves no cached results behind, and a read of results never returns
\* results of a replaced document.
C21_SearchReload ==
    /\ last.op = "search_reload"
       => /\ last.sent > 0
          /\ last.method = Some(SearchMethod(kind))
          /\ last.params = Some(SearchParams(slots["_search_options"]))
          /\ last.fetched => /\ last.exc = ""
                             /\ lastRead = NoRead => "_cs_results" \notin DOMAIN slots
    /\ lastRead.prop = "results" => lastRead.fresh

(***************************************************************************)
(* An entity with or without a document, and reads of its attributes       *)
(***************************************************************************)
InitAttributes ==
    /\ InitTransport
    /\ kind \in {"Work", "Series", "User"}
    /\ element \in {None} \cup {Some(ShapedDoc(1, shape)) : shape \in DocShapes}
    /\ slots = EmptyDict
    /\ lastRead = NoRead
    /\ unread = {}
    /\ reads = EmptyDict
    /\ bm_calls = <<>>

NextAttributes == \E a \in Attributes(kind) : ReadAttribute(a)

SpecAttributes == InitAttributes /\ [][NextAttributes]_vars

\* the attributes that have to raise UnloadedError without a document, and those that
\* have to return their neutral value
RaiseWhenUnloaded ==
    {"title", "summary", "authors", "creators", "warnings", "categories", "fandoms",
     "relationships", "characters", "freeforms", "nwords", "nchapters", "ncomments", "nkudos",
     "nbookmarks", "nhits", "nworks", "nseries", "ncollections", "ngifts"}
NeutralWhenUnloaded == {"bio", "description", "notes", "is_restricted", "language"}

\* C24: the first read of an attribute of an entity that has no document and no seeded
\* value raises UnloadedError for the title, the summary, the authors or creators, the tag
\* lists, the counts and the chapter pair, and returns the neutral value for bio,
\* description, notes, the restricted flag and the language.
C24_UnloadedPolicy ==
    (lastRead.prop # "" /\ element = None /\ lastRead.invoked)
    => /\ lastRead.prop \in RaiseWhenUnloaded => lastRead.outcome = "UnloadedError"
       /\ lastRead.prop \in NeutralWhenUnloaded
            => (lastRead.outcome = "value" /\ lastRead.val = Some("neutral"))

\* C25: a read of any attribute of an entity that has a document returns a value, whatever
\* the document has where the provider looks.
C25_LoadedReadsNeverRaise ==
    (lastRead.prop # "" /\ element # None) => lastRead.outcome = "value"

\* C14: in every reachable state a read of bookmark_id returns None if no session is active
\* or the entity has no document, and otherwise the id of the bookmark form of the current
\* document when the document has that form.
C14_BookmarkIdReads ==
    lastRead.prop = "bookmark_id"
    => /\ lastRead.outcome = "value"
       /\ (lastRead.session # "AuthState" \/ element = None) => lastRead.val = None
       /\ (lastRead.session = "AuthState" /\ element # None /\ element[1].bookmark # None)
          => lastRead.val = element[1].bookmark

(***************************************************************************)
(* Properties of the write actions                                         *)
(***************************************************************************)
\* the token a write action is to use for what held at the call: the login token of the
\* session when there is one, else the entity's own token
DueToken(pre) == IF pre.session = "AuthState" THEN pre.login_token ELSE pre.own

\* C12: every write action uses the login token of the active session when there is one and
\* else the entity's own authenticity token, and fails with AuthError without sending a
\* request exactly when neither token is available.
C12_WriteActionToken ==
    last.op \in WriteActions \cup {"bookmark"}
    => /\ (last.exc = "AuthError" /\ last.sent = 0) <=> (DueToken(last.pre) = None)
       /\ last.sent > 0 => last.token = DueToken(last.pre)

\* C13: whatever way the transport fails underneath a write action, the action fails with
\* its own error (KudoError, BookmarkError, SubscribeError, CollectError).
C13_TransportErrorsWrapped ==
    (last.op \in WriteActions \cup {"bookmark"} /\ last.transport # "")
    => last.exc = ActionError(last.op)

\* C15: delete_bookmark() fails with AuthError when no token is available and with
\* BookmarkError when bookmark_id is None, sending no request in either case; when it
\* returns normally bookmark_id reads None afterwards.
C15_DeleteBookmark ==
    last.op = "delete_bookmark"
    => /\ DueToken(last.pre) = None => (last.exc = "AuthError" /\ last.sent = 0)
       /\ (DueToken(last.pre) # None /\ last.pre.bookmark_id = [ok |-> TRUE, val |-> None])
          => (last.exc = "BookmarkError" /\ last.sent = 0)
       /\ last.exc = "" => last.bookmark_id = [ok |-> TRUE, val |-> None]

\* C16: subscribe() and unsubscribe() called while no session is active fail with AuthError
\* and send no request, even when the entity has its own authenticity token.
C16_SubscribeNeedsSession ==
    (last.op \in {"subscribe", "unsubscribe"} /\ last.pre.session # "AuthState")
    => (last.exc = "AuthError" /\ last.sent = 0)

\* C17: after a subscribe() that returned normally sub_id is not None, a subscribe() that
\* follows at once fails with SubscribeError without a request and an unsubscribe() that
\* follows at once is sent; after an unsubscribe() that returned normally sub_id is None and
\* an unsubscribe() that follows at once fails with SubscribeError without a request.
C17_SubscribeState ==
    /\ (last.op = "subscribe" /\ last.exc = "") => (last.sub_id.ok /\ last.sub_id.val # None)
    /\ (last.op = "unsubscribe" /\ last.exc = "") => last.sub_id = [ok |-> TRUE, val |-> None]
    /\ (last.op \in {"subscribe", "unsubscribe"} /\ last.pre.prior = last.op /\ last.pre.prior_exc = "")
       => (last.exc = "SubscribeError" /\ last.sent = 0)
    /\ (last.op = "unsubscribe" /\ last.pre.prior = "subscribe" /\ last.pre.prior_exc = "")
       => last.sent > 0

\* C18: a collect() answered with status 200 fails with CollectError if the page has neither
\* a notice nor an error banner, or has an error banner, and returns normally only when the
\* page has a notice banner and no error banner.
C18_CollectBanners ==
    (last.op = "collect" /\ last.transport = "" /\ last.sent > 0
        /\ last.reply[1].status = 200 /\ last.reply[1].body[1].via = "")
    => LET page == last.reply[1].body[1]
       IN  /\ (page.error \/ ~page.notice) => last.exc = "CollectError"
           /\ last.exc = "" => (page.notice /\ ~page.error)

\* C19: a collect() whose request the site answers by redirecting to its auth-error
\* location fails with AuthError, although _request returned a response.
C19_CollectAuthRedirect ==
    (last.op = "collect" /\ last.transport = "" /\ last.sent > 0
        /\ last.reply[1].status = 200 /\ last.reply[1].body[1].via = "auth_error")
    => last.exc = "AuthError"

\* the position of the first page without results among the pages received, 0 for none
FirstEmpty(sizes) ==
    IF \E i \in 1 .. Len(sizes) : sizes[i] = 0
    THEN CHOOSE i \in 1 .. Len(sizes) : sizes[i] = 0 /\ \A j \in 1 .. (i - 1) : sizes[j] # 0
    ELSE 0

\* C20: a paged-iteration helper ends normally at the first page whose results are empty,
\* having yielded exactly the pages before it and requested no page after it; for pages of
\* 3, 2 and 0 results it yields exactly two pages and stops.
C20_PagesEndAtEmptyPage ==
    (last.op = "pages" /\ FirstEmpty(last.sizes) # 0)
    => /\ last.exc = ""
       /\ FirstEmpty(last.sizes) = Len(last.sizes)
       /\ Len(last.yielded) = Len(last.sizes) - 1
       /\ \A i \in 1 .. Len(last.yielded) : last.yielded[i] = last.start + (i - 1) * last.step

(***************************************************************************)
(* Properties of the search options and of Object                          *)
(***************************************************************************)
\* the string the constraint stands for: nothing when unconstrained, the bare number when
\* both ends are the same, "<max" with only a max, ">min" with only a min, else "min-max"
CanonicalString(c) ==
    IF c.max_val # None /\ c.min_val = c.max_val[1] THEN Str(c.min_val)
    ELSE IF c.min_val = 0 /\ c.max_val = None THEN <<>>
    ELSE IF c.min_val = 0 THEN <<"<">> \o Str(c.max_val[1])
    ELSE IF c.max_val = None THEN <<">">> \o Str(c.min_val)
    ELSE Str(c.min_val) \o <<"-">> \o Str(c.max_val[1])

\* C26: for every min_val >= 0 and max_val (an integer or None) Constraint.string is "" when
\* unconstrained, "<max" with only a max, ">min" with only a min, the bare number whenever
\* min_val == max_val, and "min-max" otherwise.
C26_ConstraintString ==
    last.op = "string" => last.out = CanonicalString(last.constraint)

\* C27: to_dict() turns every field that holds a list of names into one comma-joined string
\* and every field that holds a Constraint into the constraint's string, "" when unset.
C27_ToDictJoinsAndStringifies ==
    last.op = "to_dict"
    => /\ \A f \in NameListFields : last.out[f] = StrVal(Join(last.options[f]))
       /\ \A f \in ConstraintFields :
            last.out[f] = StrVal(IF last.options[f] = None THEN <<>>
                                 ELSE ConstraintString(last.options[f][1]))

\* C28: two Objects built with the same id, name and type are equal and have equal hashes;
\* two that differ in id, name or type are unequal.
C28_ObjectEquality ==
    (last.op = "compare" /\ last.exc = "")
    => /\ last.args1 = last.args2 => (last.eq /\ last.same_hash)
       /\ last.args1 # last.args2 => ~last.eq

(***************************************************************************)
(* Properties of login                                                     *)
(***************************************************************************)
\* C22: login() without a username or a password fails with LoginFailure and sends no
\* request; login() whose POST of the credentials is answered with another status than 302
\* fails with LoginFailure; a login() that fails leaves HTTPClient.state as it was.
C22_LoginFailureKeepsState ==
    last.op = "login"
    => /\ ~last.complete => (last.exc = "LoginFailure" /\ last.sent = 0)
       /\ last.post \notin {0, 302} => last.exc = "LoginFailure"
       /\ last.exc # "" => state = last.before

(***************************************************************************)
(* Properties of _stream                                                   *)
(***************************************************************************)
\* C29: the streaming request makes exactly one attempt, a connection failure ends the call
\* with an error and without another attempt, and on success the response of the stream is
\* still open when the caller receives the stream.
C29_StreamOneAttemptOpenResponse ==
    last.op = "stream"
    => /\ last.sent <= 1
       /\ last.transport # "" => (last.exc # "" /\ last.sent = 1)
       /\ last.exc = "" => (last.sent = 1 /\ last.open)

(***************************************************************************)
(* Properties of HTTPClient._request                                       *)
(***************************************************************************)
Passes == 1..Len(req.seen)

\* C4: whatever the site answers, one call of _request issues at most 5 HTTP attempts.
C4_AtMostFiveAttempts == req.attempts <= 5 /\ Len(req.seen) <= 5

C4_Witness == op.name = "request" /\ req.pc = "done" /\ req.attempts = 5

\* C5: when all 5 attempts of a call end without success, the call fails with an
\* HTTPException that carries the status and reason of the last response.
C5_ExhaustionRaisesHTTPException ==
    (req.pc = "done" /\ Len(req.seen) = 5 /\ req.result.kind = "raise"
        /\ (req.seen[5].status \in {0, 429, 500, 502, 503, 504}) /\ req.result.exc # "AssertionError")
    => /\ req.result.exc = "HTTPException"
       /\ req.result.response # None
       /\ req.result.response = req.response

\* C6: a 429 with retry-after N is followed by a sleep of exactly N + 1 seconds and, within
\* the cap of 5 attempts, by another attempt; the answers 429 (retry-after: 2), 200 give
\* exactly two attempts, exactly one sleep, of 3 seconds, and the result of the 200.
C6_RatelimitSleep ==
    /\ \A i \in Passes :
          (req.seen[i].status = 429 /\ req.seen[i].retry # None)
          => /\ Len(req.sleeps) >= i
             /\ req.sleeps[i] = req.seen[i].retry[1] + 1
             /\ i < 5 => (Len(req.seen) > i \/ req.pc = "run")
    /\ (req.pc = "done" /\ Len(req.seen) = 2
          /\ req.seen[1] = [status |-> 429, retry |-> <<2>>] /\ req.seen[2].status = 200)
       => /\ req.attempts = 2
          /\ req.sleeps = <<3>>
          /\ req.result.kind = "return"
          /\ req.result.response[1].status = 200

C6_Witness ==
    /\ op.name = "request" /\ req.pc = "done" /\ Len(req.seen) = 2
    /\ req.seen[1] = [status |-> 429, retry |-> <<2>>] /\ req.seen[2].status = 200
    /\ req.sleeps = <<3>>

C9_TokenHeaderForEveryShape ==
    req.pc # "idle"
    => /\ (req.at.tag = "AuthState" /\ "authenticity_token" \notin DOMAIN req.kwargs.headers)
          => /\ req.result.exc \notin {"KeyError", "AttributeError"}
             /\ "authenticity_token" \in DOMAIN req.headers
             /\ req.headers["authenticity_token"] =
                    IF "data" \in DOMAIN req.kwargs /\ req.kwargs.data # None
                          /\ "x-csrf-token" \in DOMAIN req.kwargs.data[1]
                    THEN req.kwargs.data[1]["x-csrf-token"]
                    ELSE req.at.login_token
       /\ req.at.tag = "None" => req.headers = req.kwargs.headers

C36_RatelimitWithoutRetryAfter ==
    \A i \in Passes :
        (req.seen[i].status = 429 /\ req.seen[i].retry = None)
        => /\ i = Len(req.seen)
           /\ Len(req.sleeps) = i - 1
           /\ req.pc = "done"
           /\ req.result.kind = "raise"
           /\ req.result.exc = "HTTPException"

\* C33: a reload() whose fetch ends in an exception leaves the document and every cached
\* field of the entity as they were: no step of such a call changes them.
C33_FailedReloadKeepsEntity ==
    [][(op.name = "reload" /\ ~(req.pc = "done" /\ req.result.kind = "return"))
          => (element' = element /\ slots' = slots)]_vars

\* a reload that ended in HTTPException on an entity with a cached field
C33_Witness ==
    /\ last.op = "reload" /\ last.exc = "HTTPException" /\ ~last.fetched
    /\ DOMAIN slots # {}

\* C31: in every reachable state, for every two attributes a and b of the entity, a read
\* of a returns the same (a value or an exception) whether or not b is read first.
C31_IndependentFields ==
    \A a, b \in Attributes(kind) :
        a # b =>
          LET now == AttrGet(kind, a, element, slots)
              later == AttrGet(kind, a, element, AttrGet(kind, b, element, slots).slots)
          IN  now.outcome = later.outcome /\ now.value = later.value

(***************************************************************************)
(* A Work built from a listing banner, and reads of its attributes         *)
(***************************************************************************)
InitBanner ==
    /\ InitTransport
    /\ kind = "Work"
    /\ element = None
    /\ slots = EmptyDict
    /\ lastRead = NoRead
    /\ unread = {}
    /\ reads = EmptyDict
    /\ bm_calls = <<>>

NextBanner ==
    \/ \E f \in Fragments : FromBanner(f)
    \/ \E a \in Attributes(kind) : ReadAttribute(a)

SpecBanner == InitBanner /\ [][NextBanner]_vars

\* the kind of value the lazy provider returns for a full page that has, lacks or has
\* malformed what the attribute is parsed from
LazyValue(a, shape) ==
    CASE a \in {"authors", "series", "warnings", "categories", "fandoms", "relationships",
                "characters", "freeforms"} -> "tuple"
      [] a \in {"summary", "rating"} -> "str"
      [] a \in {"nwords", "ncomments", "nkudos", "nbookmarks", "nhits"} -> "int"

\* C34: a read of authors, series, a tag list, summary, rating or a count on a Work built
\* from a listing banner returns the kind of value the lazy provider returns: a tuple, a
\* string (also when the fragment has no summary or rating), an integer (also when the
\* fragment has no count or one that does not parse), never None.
C34_BannerValues ==
    (last.op = "from_banner" /\ last.exc = "" /\ lastRead.prop # ""
        /\ lastRead.prop \in {"authors", "series", "warnings", "categories", "fandoms",
                              "relationships", "characters", "freeforms", "summary", "rating",
                              "nwords", "ncomments", "nkudos", "nbookmarks", "nhits"})
    => /\ lastRead.outcome = "value"
       /\ lastRead.val = Some(LazyValue(lastRead.prop, last.fragment[PartOf(lastRead.prop)]))

\* C37: once logout() has returned, the session state is absent as before any login, and
\* a later request is sent like one of a client that never logged in: it is not refused for
\* lack of the state and carries the caller's headers only, no session token.
C37_LogoutLeavesTransportUsable ==
    /\ (last.op = "logout" /\ last.exc = "") => state = NoState
    /\ state.tag \in {"None", "AuthState"}
    /\ (req.pc # "idle" /\ req.at.tag # "AuthState")
       => /\ req.result.exc # "AttributeError"
          /\ req.headers = (IF "headers" \in DOMAIN req.kwargs THEN req.kwargs.headers ELSE EmptyDict)

(***************************************************************************)
(* Tasks that read the same attribute of a loaded entity                   *)
(***************************************************************************)
InitReaders ==
    /\ state = NoState
    /\ session = "None"
    /\ op = NoReaders
    /\ req = IdleRequest
    /\ last = NoLast
    /\ kind \in {"Work", "Series", "User"}
    /\ element \in {Some(ShapedDoc(1, shape)) : shape \in DocShapes}
    /\ slots = EmptyDict
    /\ lastRead = NoRead
    /\ unread = {}
    /\ reads = EmptyDict
    /\ bm_calls = <<>>

NextReaders == \E t \in Tasks, a \in Attributes(kind) : TaskRead(t, a)

SpecReaders == InitReaders /\ [][NextReaders]_vars

\* C38: once every task has read the attribute, which no read had computed before, its
\* provider has been called exactly once and every task got the same value.
C38_ComputedOnceForAll ==
    (op.name = "readers" /\ \A t \in Tasks : op.got[t] # None)
    => /\ op.calls = 1
       /\ \A t, u \in Tasks : op.got[t] = op.got[u]
       /\ \A t \in Tasks : op.got[t][1].outcome = "value"

(***************************************************************************)
(* Tasks that call bookmark() on a loaded entity that is not bookmarked    *)
(***************************************************************************)
InitBookmarkers ==
    /\ state \in {NoState, AuthState("L1", "client_user")}
    /\ session = "None"
    /\ op = NoBookmarkers
    /\ req = IdleRequest
    /\ last = NoLast
    /\ kind \in {"Work", "Series"}
    /\ element \in {Some(d) : d \in {sd \in SiteDocs(kind, 1) : sd.bookmark = None}}
    /\ slots = EmptyDict
    /\ lastRead = NoRead
    /\ unread = {}
    /\ reads = NoReads(kind)
    /\ bm_calls = <<>>

NextBookmarkers ==
    \/ \E t \in Tasks : TaskBookmark(t)
    \/ \E t \in Tasks : \E response \in SiteResponses([name |-> "bookmark"]) :
          TaskBookmarkResponse(t, response)
    \/ \E t \in Tasks : TaskBookmarkEnd(t)

SpecBookmarkers == InitBookmarkers /\ [][NextBookmarkers]_vars

\* C39: when calls of bookmark() on the loaded, not yet bookmarked entity were in flight at
\* the same time, at most one bookmark request reached the site.
C39_OneBookmarkRequest ==
    (op.name = "bookmarkers" /\ op.overlap) => op.sent <= 1

(***************************************************************************)
(* Tasks that call _request at the same time                               *)
(***************************************************************************)
InitCallers ==
    /\ state = NoState
    /\ session = "None"
    /\ op = NoCallers
    /\ req = IdleRequest
    /\ last = NoLast
    /\ kind = "Work"
    /\ element = Some(Doc(1, None, None, TRUE, Some("C1")))
    /\ slots = EmptyDict
    /\ lastRead = NoRead
    /\ unread = {}
    /\ reads = NoReads(kind)
    /\ bm_calls = <<>>

NextCallers ==
    \/ \E t \in Tasks : TaskRequest(t)
    \/ \E t \in Tasks, response \in CallerResponses : TaskPass(t, response)

SpecCallers == InitCallers /\ [][NextCallers]_vars

\* the sleep of a call after its i-th pass, from what that pass met
OwnSleep(met, i) ==
    IF met.status = 429 THEN met.retry[1] + 1 ELSE 1 + 2 * (i - 1)

\* C40: with several calls of _request in flight, each call has slept once for every 429
\* and server error that it received itself and for nothing else, each of these counts
\* against its own 5 attempts, and the length of each sleep follows from what that call met.
C40_OwnAttemptsAndSleeps ==
    op.name = "callers"
    => \A t \in Tasks :
         LET r == op.call[t]
             retried == {i \in 1..Len(r.seen) : r.seen[i].status \in RetryStatuses \cup {429}}
         IN  /\ r.attempts = Len(r.seen)
             /\ r.tries = Cardinality(retried)
             /\ r.tries <= MaxTries
             /\ Len(r.sleeps) = r.tries
             /\ \A i \in 1..Len(r.sleeps) : r.sleeps[i] = OwnSleep(r.seen[i], i)

\* one call has slept after a 429 while another call in flight has made no pass
C40_Witness ==
    /\ op.name = "callers"
    /\ \E t, u \in Tasks :
         /\ t # u
         /\ op.call[t].pc = "run"
         /\ \E i \in 1..Len(op.call[t].seen) : op.call[t].seen[i].status = 429
         /\ op.call[u].pc = "run"
         /\ op.call[u].tries = 0
         /\ op.call[u].sleeps = <<>>

(***************************************************************************)
(* A client that is not logged in iterating over pages of search results   *)
(* and reloading the pages it was given                                    *)
(***************************************************************************)
InitIterate ==
    /\ state = NoState
    /\ session = "None"
    /\ op = NoIteration
    /\ req = IdleRequest
    /\ last = NoLast
    /\ kind \in {"WorkSearch", "BookmarkSearch", "TagSearch"}
    /\ element = None
    /\ slots = EmptyDict
    /\ lastRead = NoRead
    /\ unread = {}
    /\ reads = EmptyDict
    /\ bm_calls = <<>>

NextIterate ==
    \/ \E query \in SearchQueries, optional \in BOOLEAN, start \in PageStarts, stop \in 1 .. MaxStop :
            IterateStart(SearchOptions(1, query, optional), start, stop)
    \/ IterateContinue
    \/ \E i \in 1 .. MaxStop : PageReloadStart(i)
    \/ PageReloadContinue
    \/ \E response \in SiteResponses(op) : RequestResponse(response)

SpecIterate == InitIterate /\ [][NextIterate]_vars

\* C32: every page yielded keeps the options it was fetched with: at any time, also after
\* the iterator has gone on to later pages, the page's search_options.page is the page
\* number it was fetched with, and its reload() requests that page number.
C32_PageKeepsOptions ==
    /\ op.name = "iterate"
       => \A i \in 1 .. Len(op.yielded) :
            op.objects[op.yielded[i].search_options].page = op.yielded[i].fetched
    /\ last.op = "page_reload" => last.requested = last.page.fetched

====
